---------------------------- MODULE Spec2Model ----------------------------
(***************************************************************************)
(* Flag-football play designer: the undo/redo history manager (useHistory) *)
(* and the App wiring that drives it.                                      *)
(*                                                                         *)
(* The specifications share the history manager's operators:               *)
(*   SpecHistory    the hook driven by arbitrary reset/register/undo/redo  *)
(*                  calls with arbitrary snapshots;                        *)
(*   Spec           the App: event handlers, batched React state updates,  *)
(*                  the render commit and its effects;                     *)
(*   SpecPlays      the App's play collection and field settings;          *)
(*   SpecCanvas     the canvas: tools, drafts, drags and the players lock; *)
(*   SpecSnap       findSnapPoint on bounded documents and points;         *)
(*   SpecGesture    presses, moves, releases and Delete on stored lines,   *)
(*                  with or without the screen-to-field transform;         *)
(*   SpecNormalise  normaliseElement and normalisePlay on file entries;    *)
(*   SpecDrag       drags and drafts on a stored player, arrow and rect,   *)
(*                  with tool and lock changes in between.                 *)
(***************************************************************************)
EXTENDS Integers, Sequences, FiniteSets, TLC

VARIABLES
    undoStackRef,   \* useHistory: undoStackRef.current
    redoStackRef,   \* useHistory: redoStackRef.current
    previousRef,    \* useHistory: previousRef.current (the baseline)
    skipNextRef,    \* useHistory: skipNextRef.current
    call,           \* SpecHistory: the last call made on the hook: its name,
                    \* argument, result, the hook's state before it, and the
                    \* call before
    script,         \* SpecHistory: the watch on the round-trip script
    plays,          \* App: useState plays; a reference to an array in `heap`
    activeId,       \* App: useState activeId
    selectionId,    \* App: useState selectionId
    tool,           \* App: useState tool
    wristConfig,    \* App: useState wristConfig
    dragState,      \* PlayCanvas: useState dragState
    draftState,     \* PlayCanvas: useState draftState
    snapCandidate,  \* PlayCanvas: useState snapCandidate
    playersLocked,  \* App: useState playersLocked
    probe,          \* SpecSnap: the arguments findSnapPoint was called with
    heap,           \* the plays arrays that exist, by reference
    mounted,        \* whether the first render has been committed
    nEvents,        \* number of user events handled so far
    ev              \* the last user event: its name, result, the state before
                    \* it, and the event before

histVars == <<undoStackRef, redoStackRef, previousRef, skipNextRef>>
appVars == <<plays, activeId, selectionId, tool, wristConfig, dragState, heap,
             mounted, nEvents, ev, draftState, snapCandidate, playersLocked, probe>>
vars == <<undoStackRef, redoStackRef, previousRef, skipNextRef, call, script,
          plays, activeId, selectionId, tool, wristConfig, dragState, heap,
          mounted, nEvents, ev, draftState, snapCandidate, playersLocked, probe>>

-----------------------------------------------------------------------------
(* Bounds of the model *)

OptionsCapacity == 3    \* options.capacity handed to the hook
NumSnapshots == 3       \* distinct opaque snapshots of SpecHistory / SpecRoundTrip
MaxRegs == 6            \* most register calls the script watch follows
MaxEvents == 5          \* most user events of one run of the App

Snapshots == 1..NumSnapshots

-----------------------------------------------------------------------------
(* Sequence helpers: Array.prototype.slice *)

\* arr.slice(-n) for n >= 1: the last n entries (all of them when there are fewer)
SliceLast(arr, n) ==
    IF Len(arr) <= n THEN arr ELSE SubSeq(arr, Len(arr) - n + 1, Len(arr))

\* arr.slice(0, -1): all but the last entry
SliceButLast(arr) == SubSeq(arr, 1, Len(arr) - 1)

Max(a, b) == IF a >= b THEN a ELSE b

Min(a, b) == IF a <= b THEN a ELSE b

-----------------------------------------------------------------------------
(* useHistory.  The hook's state is the record                              *)
(*   [undoStack, redoStack, previous, skipNext]                             *)
(* and every callback is an operator from that record to the new record    *)
(* (and, for undo/redo, the returned value: <<>> is null, <<s>> is s).     *)

capacity == Max(1, OptionsCapacity)

H == [undoStack |-> undoStackRef, redoStack |-> redoStackRef,
      previous |-> previousRef, skipNext |-> skipNextRef]

HIs(h) ==
    /\ undoStackRef = h.undoStack
    /\ redoStackRef = h.redoStack
    /\ previousRef = h.previous
    /\ skipNextRef = h.skipNext

SetH(h) ==
    /\ undoStackRef' = h.undoStack
    /\ redoStackRef' = h.redoStack
    /\ previousRef' = h.previous
    /\ skipNextRef' = h.skipNext

\* useHistory(initialSnapshot): the refs as first created
useHistory(initialSnapshot) ==
    [undoStack |-> <<>>, redoStack |-> <<>>,
     previous |-> initialSnapshot, skipNext |-> TRUE]

\* reset that forgets to arm skip-next
reset_unarmed(h, snapshot) ==
    [undoStack |-> <<>>, redoStack |-> <<>>,
     previous |-> snapshot, skipNext |-> FALSE]

\* reset that clears only the redo stack
reset_keepsUndo(h, snapshot) ==
    [undoStack |-> h.undoStack, redoStack |-> <<>>,
     previous |-> snapshot, skipNext |-> TRUE]

reset(h, snapshot) ==
    [undoStack |-> <<>>, redoStack |-> <<>>,
     previous |-> snapshot, skipNext |-> TRUE]

\* register that leaves the redo stack as it is
register_keepsRedo(h, snapshot) ==
    IF h.skipNext
    THEN [h EXCEPT !.skipNext = FALSE, !.previous = snapshot]
    ELSE [h EXCEPT
            !.undoStack = SliceLast(Append(h.undoStack, h.previous), capacity),
            !.previous = snapshot]

\* register that trims with slice(0, capacity): keeps the oldest entries
register_keepsOldest(h, snapshot) ==
    IF h.skipNext
    THEN [h EXCEPT !.skipNext = FALSE, !.previous = snapshot]
    ELSE LET pushed == Append(h.undoStack, h.previous)
         IN [h EXCEPT
               !.undoStack = IF Len(pushed) > capacity
                             THEN SubSeq(pushed, 1, capacity)
                             ELSE pushed,
               !.redoStack = <<>>,
               !.previous = snapshot]

\* register that pushes the new snapshot instead of the previous baseline
register_pushesNew(h, snapshot) ==
    IF h.skipNext
    THEN [h EXCEPT !.skipNext = FALSE, !.previous = snapshot]
    ELSE LET pushed == Append(h.undoStack, snapshot)
         IN [h EXCEPT
               !.undoStack = IF Len(pushed) > capacity
                             THEN SliceLast(pushed, capacity)
                             ELSE pushed,
               !.redoStack = <<>>,
               !.previous = snapshot]

\* register whose swallowed call forgets to disarm skip-next
register_staysArmed(h, snapshot) ==
    IF h.skipNext
    THEN [h EXCEPT !.previous = snapshot]
    ELSE LET pushed == Append(h.undoStack, h.previous)
         IN [h EXCEPT
               !.undoStack = IF Len(pushed) > capacity
                             THEN SliceLast(pushed, capacity)
                             ELSE pushed,
               !.redoStack = <<>>,
               !.previous = snapshot]

register(h, snapshot) ==
    IF h.skipNext
    THEN [h EXCEPT !.skipNext = FALSE, !.previous = snapshot]
    ELSE LET pushed == Append(h.undoStack, h.previous)
         IN [h EXCEPT
               !.undoStack = IF Len(pushed) > capacity
                             THEN SliceLast(pushed, capacity)
                             ELSE pushed,
               !.redoStack = <<>>,
               !.previous = snapshot]

\* undo that forgets to arm skip-next
undo_unarmed(h) ==
    IF Len(h.undoStack) = 0
    THEN [h |-> h, ret |-> <<>>]
    ELSE LET prev == h.undoStack[Len(h.undoStack)]
         IN [h |-> [undoStack |-> SliceButLast(h.undoStack),
                    redoStack |-> Append(h.redoStack, h.previous),
                    previous |-> prev,
                    skipNext |-> h.skipNext],
             ret |-> <<prev>>]

\* undo that arms skip-next before it looks at the stack
undo_armsFirst(h) ==
    IF Len(h.undoStack) = 0
    THEN [h |-> [h EXCEPT !.skipNext = TRUE], ret |-> <<>>]
    ELSE LET prev == h.undoStack[Len(h.undoStack)]
         IN [h |-> [undoStack |-> SliceButLast(h.undoStack),
                    redoStack |-> Append(h.redoStack, h.previous),
                    previous |-> prev,
                    skipNext |-> TRUE],
             ret |-> <<prev>>]

undo(h) ==
    IF Len(h.undoStack) = 0
    THEN [h |-> h, ret |-> <<>>]
    ELSE LET prev == h.undoStack[Len(h.undoStack)]
         IN [h |-> [undoStack |-> SliceButLast(h.undoStack),
                    redoStack |-> Append(h.redoStack, h.previous),
                    previous |-> prev,
                    skipNext |-> TRUE],
             ret |-> <<prev>>]

\* redo that takes the oldest redo entry instead of the newest
redo_oldest(h) ==
    IF Len(h.redoStack) = 0
    THEN [h |-> h, ret |-> <<>>]
    ELSE LET next == h.redoStack[1]
         IN [h |-> [undoStack |-> Append(h.undoStack, h.previous),
                    redoStack |-> Tail(h.redoStack),
                    previous |-> next,
                    skipNext |-> TRUE],
             ret |-> <<next>>]

\* redo that pushes the restored snapshot, not the baseline, onto the undo stack
redo_pushesNext(h) ==
    IF Len(h.redoStack) = 0
    THEN [h |-> h, ret |-> <<>>]
    ELSE LET next == h.redoStack[Len(h.redoStack)]
         IN [h |-> [undoStack |-> Append(h.undoStack, next),
                    redoStack |-> SliceButLast(h.redoStack),
                    previous |-> next,
                    skipNext |-> TRUE],
             ret |-> <<next>>]

redo(h) ==
    IF Len(h.redoStack) = 0
    THEN [h |-> h, ret |-> <<>>]
    ELSE LET next == h.redoStack[Len(h.redoStack)]
         IN [h |-> [undoStack |-> Append(h.undoStack, h.previous),
                    redoStack |-> SliceButLast(h.redoStack),
                    previous |-> next,
                    skipNext |-> TRUE],
             ret |-> <<next>>]

-----------------------------------------------------------------------------
(* SpecHistory: any sequence of calls on the hook *)

\* what `call` remembers of the call before: its name and whether it returned null
Brief(c) == [op |-> c.op, null |-> c.ret = <<>>]

\* `script` watches the calls for the test script
\*     reset(s0); register(s1) .. register(sN); undo() x N; redo() x N
\* and records what the script passed in and got back.  A call that does not
\* continue the script switches the watch off until the next reset.
ScriptOff ==
    [phase |-> "off", n |-> 0, first |-> 0, regs |-> <<>>, nUndo |-> 0, nRedo |-> 0,
     undoRets |-> <<>>, undoNull |-> FALSE, lastRedo |-> <<>>]

ScriptStart(s0) == [ScriptOff EXCEPT !.phase = "registers", !.first = s0]

Watch(sc, op, arg, ret) ==
    CASE op = "reset" -> ScriptStart(arg[1])
      [] op = "register" /\ sc.phase = "registers" /\ sc.n < MaxRegs ->
            [sc EXCEPT !.n = sc.n + 1, !.regs = Append(sc.regs, arg[1])]
      [] op = "undo" /\ sc.phase \in {"registers", "undos"} /\ sc.nUndo < sc.n ->
            [sc EXCEPT !.phase = "undos", !.nUndo = sc.nUndo + 1,
                       !.undoRets = sc.undoRets \o ret,
                       !.undoNull = sc.undoNull \/ ret = <<>>]
      [] op = "redo" /\ sc.phase \in {"undos", "redos"} /\ sc.nUndo = sc.n
                     /\ sc.nRedo < sc.n ->
            [sc EXCEPT !.phase = "redos", !.nRedo = sc.nRedo + 1,
                       !.lastRedo = IF ret = <<>> THEN sc.lastRedo ELSE ret]
      [] OTHER -> ScriptOff

\* SpecHistory has no App: its variables stay at these values
AppIdle ==
    /\ plays = 0
    /\ activeId = "null"
    /\ selectionId = "null"
    /\ tool = "player"
    /\ wristConfig = [playCount |-> 0, selectedIds |-> <<>>]
    /\ dragState = [id |-> "null", offsetX |-> 0, offsetY |-> 0]
    /\ draftState = [id |-> "null", type |-> "null"]
    /\ snapCandidate = <<>>
    /\ playersLocked = FALSE
    /\ probe = <<>>
    /\ heap = <<>>
    /\ mounted = FALSE
    /\ nEvents = 0
    /\ ev = <<>>

InitHistory ==
    /\ \E s0 \in Snapshots : HIs(useHistory(s0))
    /\ call = [op |-> "create", arg |-> <<>>, ret |-> <<>>,
               pre |-> H, prior |-> [op |-> "none", null |-> TRUE]]
    /\ script = ScriptOff
    /\ AppIdle

Called(op, arg, ret) ==
    /\ call' = [op |-> op, arg |-> arg, ret |-> ret, pre |-> H, prior |-> Brief(call)]
    /\ script' = Watch(script, op, arg, ret)
    /\ UNCHANGED appVars

HistoryReset ==
    \E s \in Snapshots :
        /\ SetH(reset(H, s))
        /\ Called("reset", <<s>>, <<>>)

HistoryRegister ==
    \E s \in Snapshots :
        /\ SetH(register(H, s))
        /\ Called("register", <<s>>, <<>>)

HistoryUndo ==
    /\ SetH(undo(H).h)
    /\ Called("undo", <<>>, undo(H).ret)

HistoryRedo ==
    /\ SetH(redo(H).h)
    /\ Called("redo", <<>>, redo(H).ret)

NextHistory == HistoryReset \/ HistoryRegister \/ HistoryUndo \/ HistoryRedo

SpecHistory == InitHistory /\ [][NextHistory]_vars

-----------------------------------------------------------------------------
(* Claims about the hook, checked under SpecHistory *)

Reverse(s) == [i \in 1..Len(s) |-> s[Len(s) + 1 - i]]

\* the snapshot the script registered last: sN, or s0 when N = 0
ScriptLast == IF script.n = 0 THEN script.first ELSE script.regs[script.n]

RoundTripDone ==
    /\ script.phase # "off"
    /\ script.nUndo = script.n
    /\ script.nRedo = script.n

\* C1: after reset(s0), N registers s1..sN, N undos and N redos, the baseline
\* is sN, and the last redo that returned a value returned sN.
C1_RoundTrip ==
    RoundTripDone =>
        /\ previousRef = ScriptLast
        /\ script.lastRedo # <<>> => script.lastRedo = <<ScriptLast>>

C1_Witness ==
    /\ RoundTripDone
    /\ script.n = 3
    /\ script.first = 3
    /\ script.regs = <<1, 2, 3>>
    /\ script.lastRedo = <<3>>
    /\ previousRef = 3

\* the baselines the script's changes replaced: register(s1) only sets the
\* baseline, register(s2) .. register(sN) replace s1 .. s(N-1)
ScriptPreChange == IF script.n = 0 THEN <<>> ELSE SliceButLast(script.regs)

\* what repeated undo is to return: the newest `capacity` of them, newest first
ScriptRecoverable == Reverse(SliceLast(ScriptPreChange, capacity))

\* C2: the undo stack never holds more than `capacity` entries; a register on
\* a full stack drops the oldest entry; and in the script the undos return the
\* newest `capacity` pre-change snapshots, newest first, and null after them.
C2_CapacityBound ==
    /\ Len(undoStackRef) <= capacity
    /\ (call.op = "register" /\ ~call.pre.skipNext
            /\ Len(call.pre.undoStack) = capacity)
         => undoStackRef = Append(Tail(call.pre.undoStack), call.pre.previous)
    /\ script.phase \in {"undos", "redos"} =>
         /\ Len(script.undoRets) = Min(script.nUndo, Len(ScriptRecoverable))
         /\ script.undoRets = SubSeq(ScriptRecoverable, 1, Len(script.undoRets))
         /\ script.undoNull <=> script.nUndo > Len(ScriptRecoverable)

\* capacity 3, five changes after the baseline: three undos return the three
\* newest pre-change snapshots, the fourth returns null
C2_Witness ==
    /\ script.phase = "undos"
    /\ script.regs = <<1, 2, 3, 1, 2, 3>>
    /\ script.nUndo = capacity + 1
    /\ script.undoRets = <<2, 1, 3>>
    /\ script.undoNull

\* C3: after creation and after reset skip-next is armed, and the first
\* register after either leaves both stacks as they were, makes its argument
\* the baseline and disarms skip-next.
C3_FirstRegisterSwallowed ==
    /\ call.op \in {"create", "reset"} => skipNextRef
    /\ (call.op = "register" /\ call.prior.op \in {"create", "reset"}) =>
         /\ undoStackRef = call.pre.undoStack
         /\ redoStackRef = call.pre.redoStack
         /\ undoStackRef = <<>>
         /\ previousRef = call.arg[1]
         /\ skipNextRef = FALSE

C3_Witness ==
    /\ call.op = "register"
    /\ call.prior.op = "reset"
    /\ call.pre.previous # call.arg[1]
    /\ previousRef = call.arg[1]

\* C4: register(s) with skip-next not armed pushes the previous baseline as
\* the newest undo entry (keeping the entries below it, newest last), empties
\* the redo stack and makes s the baseline.
C4_RegisterPushesPrevious ==
    (call.op = "register" /\ ~call.pre.skipNext) =>
        /\ Len(undoStackRef) > 0
        /\ undoStackRef[Len(undoStackRef)] = call.pre.previous
        /\ SliceButLast(undoStackRef)
             = SliceLast(call.pre.undoStack, Len(undoStackRef) - 1)
        /\ redoStackRef = <<>>
        /\ previousRef = call.arg[1]
        /\ skipNextRef = FALSE

C4_Witness ==
    /\ call.op = "register"
    /\ ~call.pre.skipNext
    /\ call.pre.redoStack # <<>>
    /\ call.pre.previous # call.arg[1]
    /\ undoStackRef[Len(undoStackRef)] = call.pre.previous

\* C5: undo() on a non-empty undo stack pops the newest undo entry, pushes the
\* old baseline onto the redo stack, makes the popped entry the baseline and
\* returns it, and arms skip-next; the register that follows adds no undo entry.
C5_Undo ==
    /\ (call.op = "undo" /\ call.pre.undoStack # <<>>) =>
         /\ undoStackRef = SliceButLast(call.pre.undoStack)
         /\ redoStackRef = Append(call.pre.redoStack, call.pre.previous)
         /\ previousRef = call.pre.undoStack[Len(call.pre.undoStack)]
         /\ call.ret = <<previousRef>>
         /\ skipNextRef
    /\ (call.op = "register" /\ call.prior.op = "undo" /\ ~call.prior.null) =>
         undoStackRef = call.pre.undoStack

C5_Witness ==
    /\ call.op = "register"
    /\ call.prior.op = "undo"
    /\ ~call.prior.null
    /\ Len(undoStackRef) = 2
    /\ redoStackRef # <<>>

\* C6: redo() on a non-empty redo stack pops the newest redo entry, pushes the
\* old baseline onto the undo stack, makes the popped entry the baseline and
\* returns it, and arms skip-next; and redo after undo gives back the stacks
\* and the baseline undo started from.
C6_Redo ==
    /\ (call.op = "redo" /\ call.pre.redoStack # <<>>) =>
         /\ redoStackRef = SliceButLast(call.pre.redoStack)
         /\ undoStackRef = Append(call.pre.undoStack, call.pre.previous)
         /\ previousRef = call.pre.redoStack[Len(call.pre.redoStack)]
         /\ call.ret = <<previousRef>>
         /\ skipNextRef
    /\ undoStackRef # <<>> =>
         LET u == undo(H)
             r == redo(u.h)
         IN /\ r.h = [H EXCEPT !.skipNext = TRUE]
            /\ r.ret = <<previousRef>>

C6_Witness ==
    /\ call.op = "redo"
    /\ call.prior.op = "undo"
    /\ ~call.prior.null
    /\ Len(call.pre.redoStack) = 2
    /\ Len(call.pre.undoStack) = 1
    /\ call.ret = <<previousRef>>
    /\ call.pre.previous # previousRef

-----------------------------------------------------------------------------
(* utils.ts: field geometry.  Coordinates and yard counts are integers.    *)

Null == "null"

FIELD_MARGIN_VERTICAL == 40
FIELD_MARGIN_HORIZONTAL == 40
DEFAULT_PLAY_SIZE_H == 800
DEFAULT_DIVISIONS == 20
DEFAULT_FIELD_WIDTH == 30
DEFAULT_LINE_OF_SCRIMMAGE == 5

BASE_UNIT_PX ==
    (DEFAULT_PLAY_SIZE_H - FIELD_MARGIN_VERTICAL * 2) \div DEFAULT_DIVISIONS

\* Math.round(num / den) for den > 0: the nearest integer, halves upwards
Round(num, den) == (2 * num + den) \div (2 * den)

clamp(value, min, max) == Max(min, Min(max, value))

\* Math.max(1, Math.round(yards) || 1) for an integer yards
Units(yards) == Max(1, IF yards = 0 THEN 1 ELSE yards)

computeFieldSize(widthYards, lengthYards) ==
    [w |-> FIELD_MARGIN_HORIZONTAL * 2 + Units(widthYards) * BASE_UNIT_PX,
     h |-> FIELD_MARGIN_VERTICAL * 2 + Units(lengthYards) * BASE_UNIT_PX]

createEmptyPlay(id, name) ==
    [id |-> id,
     name |-> name,
     size |-> computeFieldSize(DEFAULT_FIELD_WIDTH, DEFAULT_DIVISIONS),
     lineOfScrimmage |-> DEFAULT_LINE_OF_SCRIMMAGE,
     fieldWidthYards |-> DEFAULT_FIELD_WIDTH,
     fieldLengthYards |-> DEFAULT_DIVISIONS,
     elements |-> <<>>]

\* generateUid(): Math.random() decides the result, so any id of the pool
ElementIds == {"e1", "e2"}
generateUid == ElementIds

-----------------------------------------------------------------------------
(* The App's state as one record, so that handlers are operators on it.    *)
(* `plays` is a reference: heap[plays].list is the array of plays, and a   *)
(* snapshot {plays, activeId} holds the reference it was built from.       *)
(* heap[r].stale marks the arrays of a document that an import replaced.   *)

W == [plays |-> plays, activeId |-> activeId, selectionId |-> selectionId,
      tool |-> tool, wristConfig |-> wristConfig, dragState |-> dragState,
      draftState |-> draftState, snapCandidate |-> snapCandidate,
      playersLocked |-> playersLocked, heap |-> heap, h |-> H]

SetW(w) ==
    /\ plays' = w.plays
    /\ activeId' = w.activeId
    /\ selectionId' = w.selectionId
    /\ tool' = w.tool
    /\ wristConfig' = w.wristConfig
    /\ dragState' = w.dragState
    /\ draftState' = w.draftState
    /\ snapCandidate' = w.snapCandidate
    /\ playersLocked' = w.playersLocked
    /\ heap' = w.heap
    /\ SetH(w.h)

PlaysOf(w) == w.heap[w.plays].list

\* the references a history state holds
HistRefs(h) ==
    {h.previous.plays}
        \cup {h.undoStack[i].plays : i \in 1..Len(h.undoStack)}
        \cup {h.redoStack[i].plays : i \in 1..Len(h.redoStack)}

\* arrays nothing refers to any more are reclaimed
Collect(w) ==
    [w EXCEPT !.heap = [r \in (DOMAIN w.heap) \cap ({w.plays} \cup HistRefs(w.h))
                            |-> w.heap[r]]]

FreshRef(hp) ==
    CHOOSE r \in 1..(Cardinality(DOMAIN hp) + 1) :
        /\ r \notin DOMAIN hp
        /\ \A q \in 1..(r - 1) : q \in DOMAIN hp

\* setPlays(list) with a newly built array
setPlays(w, list) ==
    LET r == FreshRef(w.heap)
    IN [w EXCEPT !.plays = r,
                 !.heap = (r :> [list |-> list, stale |-> FALSE]) @@ w.heap]

\* plays.find((play) => play.id === activeId) ?? plays[0] ?? null, as an
\* index into the array (0 for null)
ActiveIndex(list, id) ==
    IF \E i \in 1..Len(list) : list[i].id = id
    THEN CHOOSE i \in 1..Len(list) :
            /\ list[i].id = id
            /\ \A j \in 1..(i - 1) : list[j].id # id
    ELSE IF Len(list) > 0 THEN 1 ELSE 0

HasActivePlay(w) == ActiveIndex(PlaysOf(w), w.activeId) # 0

activePlay(w) == PlaysOf(w)[ActiveIndex(PlaysOf(w), w.activeId)]

ElementIdsOf(play) == {play.elements[i].id : i \in 1..Len(play.elements)}

\* the document a snapshot or the live state stands for
Doc(w) == [plays |-> PlaysOf(w), activeId |-> w.activeId]

NoDrag == [id |-> Null, offsetX |-> 0, offsetY |-> 0]

\* draftState null
NoDraft == [id |-> Null, type |-> Null]

-----------------------------------------------------------------------------
(* The render commit.  State updates made by one handler are applied in    *)
(* one render (React 18 batching); a render is committed only when some    *)
(* state differs (Object.is), and its effects run after it.  An effect     *)
(* runs when one of its dependencies differs from the previous commit.     *)

ReactState(w) ==
    <<w.plays, w.activeId, w.selectionId, w.tool, w.wristConfig, w.playersLocked>>

Take(s, n) == SubSeq(s, 1, Min(n, Len(s)))

Includes(s, x) == \E i \in 1..Len(s) : s[i] = x

\* the wrist-card effect: keep the selected ids that still exist, fill up to
\* playCount with the other plays in order
wristEffect(current, list) ==
    LET availableIds == [i \in 1..Len(list) |-> list[i].id]
        kept == SelectSeq(current.selectedIds, LAMBDA id : Includes(availableIds, id))
        extras == Take(SelectSeq(availableIds, LAMBDA id : ~Includes(kept, id)),
                       current.playCount - Len(kept))
        nextSelected ==
            IF Len(kept) < current.playCount THEN kept \o extras
            ELSE IF Len(kept) > current.playCount THEN Take(kept, current.playCount)
            ELSE kept
    IN [current EXCEPT !.selectedIds = nextSelected]

\* the activeId effect
activeIdEffect(current, list) ==
    IF Len(list) = 0 THEN Null
    ELSE IF ~\E i \in 1..Len(list) : list[i].id = current THEN list[1].id
    ELSE current

\* the selection effect: setSelectionId((current) => ...)
selectionEffect(current, w) ==
    IF current = Null \/ ~HasActivePlay(w) THEN Null
    ELSE IF current \in ElementIdsOf(activePlay(w)) THEN current
    ELSE Null

\* Commit(w, prev, first): the render of state w is committed; prev is the
\* state of the commit before (first: there is none).  `history` is a new
\* object in every render, so the register effect runs in every commit.  The
\* selection effect depends on activePlay, which can only differ when plays
\* or activeId does; run with the same activePlay it changes nothing, as the
\* selection is only ever set to an element of the rendered play.
RECURSIVE Commit(_, _, _)
Commit(w, prev, first) ==
    LET playsChanged == first \/ w.plays # prev.plays
        activeChanged == playsChanged \/ w.activeId # prev.activeId
        list == PlaysOf(w)
        w2 == [w EXCEPT
                 !.h = register(w.h, [plays |-> w.plays, activeId |-> w.activeId]),
                 !.activeId = IF activeChanged
                              THEN activeIdEffect(w.activeId, list)
                              ELSE w.activeId,
                 !.selectionId = IF activeChanged
                                 THEN selectionEffect(w.selectionId, w)
                                 ELSE w.selectionId,
                 !.wristConfig = IF playsChanged
                                 THEN wristEffect(w.wristConfig, list)
                                 ELSE w.wristConfig]
    IN IF ReactState(w2) = ReactState(w) THEN w2 ELSE Commit(w2, w, FALSE)

\* after a handler took the state from w0 to w1
Render(w0, w1) ==
    IF ReactState(w1) = ReactState(w0) THEN w1 ELSE Commit(w1, w0, FALSE)

-----------------------------------------------------------------------------
(* App handlers *)

\* the plays an updater can be handed: those of the current array
CurrentPlays(w) == {PlaysOf(w)[i] : i \in 1..Len(PlaysOf(w))}

\* updateActivePlay(updater): current.map(...) builds a new array; the updater
\* is a function of the play it is given
updateActivePlay(w, updater) ==
    IF w.activeId = Null THEN w
    ELSE setPlays(w, [i \in 1..Len(PlaysOf(w)) |->
                        IF PlaysOf(w)[i].id = w.activeId
                        THEN updater[PlaysOf(w)[i]]
                        ELSE PlaysOf(w)[i]])

\* a play change that writes into the current array instead of building one
handleActivePlayChange_inPlace(w, next) ==
    IF w.activeId = Null THEN w
    ELSE [w EXCEPT !.heap[w.plays].list =
                      [i \in 1..Len(PlaysOf(w)) |->
                          IF PlaysOf(w)[i].id = w.activeId THEN next
                          ELSE PlaysOf(w)[i]]]

handleActivePlayChange(w, next) == updateActivePlay(w, [play \in CurrentPlays(w) |-> next])

handleSelectionChange(w, id) == [w EXCEPT !.selectionId = id]

\* handleClearPlay: nothing happens unless window.confirm answers yes
handleClearPlay(w, confirmed) ==
    IF ~confirmed THEN w
    ELSE [updateActivePlay(w, [play \in CurrentPlays(w) |->
                                    [play EXCEPT !.elements = <<>>]])
             EXCEPT !.selectionId = Null]

\* a tool change that discards the draft
handleToolChange_dropsDraft(w, next) == [w EXCEPT !.tool = next, !.draftState = NoDraft]

handleToolChange(w, next) == [w EXCEPT !.tool = next]

handleTogglePlayersLocked(w) == [w EXCEPT !.playersLocked = ~w.playersLocked]

\* handlePlaySelectChange(value): the play picked in the select box
handlePlaySelectChange(w, value) == [w EXCEPT !.activeId = value, !.selectionId = Null]

\* handleAddPlay: createEmptyPlay(`Play ${current.length + 1}`), whose id is
\* what generateUid() returned
handleAddPlay(w, id) ==
    LET current == PlaysOf(w)
        nextPlay == createEmptyPlay(id, "Play " \o ToString(Len(current) + 1))
    IN [setPlays(w, Append(current, nextPlay)) EXCEPT
          !.activeId = nextPlay.id, !.selectionId = Null]

\* handleDuplicatePlay: the copy and each of its elements get an id from
\* generateUid() (ids[i] for element i); current.find takes the first match
handleDuplicatePlay(w, id, ids) ==
    LET current == PlaysOf(w)
    IN IF w.activeId = Null \/ ~\E i \in 1..Len(current) : current[i].id = w.activeId
       THEN w
       ELSE LET original == current[ActiveIndex(current, w.activeId)]
                copy == [original EXCEPT
                           !.id = id,
                           !.name = original.name \o " copy",
                           !.elements = [i \in 1..Len(original.elements) |->
                                            [original.elements[i] EXCEPT !.id = ids[i]]]]
            IN [setPlays(w, Append(current, copy)) EXCEPT
                  !.activeId = copy.id, !.selectionId = Null]

\* a delete that leaves the active id as it was
handleDeletePlay_keepsActive(w) ==
    LET current == PlaysOf(w)
    IN IF w.activeId = Null \/ Len(current) <= 1 THEN w
       ELSE [setPlays(w, SelectSeq(current, LAMBDA play : play.id # w.activeId))
                EXCEPT !.selectionId = Null]

\* handleDeletePlay: filter drops every play whose id is the active id
handleDeletePlay(w) ==
    LET current == PlaysOf(w)
    IN IF w.activeId = Null \/ Len(current) <= 1 THEN w
       ELSE LET filtered == SelectSeq(current, LAMBDA play : play.id # w.activeId)
                nextActive == IF Len(filtered) > 0 THEN filtered[Len(filtered)].id
                              ELSE Null
            IN [setPlays(w, filtered) EXCEPT
                  !.activeId = nextActive, !.selectionId = Null]

\* what history.undo() / history.redo() returned is applied by the App
applySnapshot(w, r) ==
    IF r.ret = <<>> THEN [w EXCEPT !.h = r.h]
    ELSE LET snapshot == r.ret[1]
             list == w.heap[snapshot.plays].list
         IN [w EXCEPT
               !.h = r.h,
               !.plays = snapshot.plays,
               !.activeId = IF snapshot.activeId # Null THEN snapshot.activeId
                            ELSE IF Len(list) > 0 THEN list[1].id ELSE Null,
               !.selectionId = Null]

\* an undo click that restores the active id and selection but not the plays
handleUndo_keepsPlays(w) ==
    LET r == undo(w.h)
    IN IF r.ret = <<>> THEN [w EXCEPT !.h = r.h]
       ELSE [w EXCEPT !.h = r.h, !.activeId = r.ret[1].activeId, !.selectionId = Null]

handleUndo(w) == applySnapshot(w, undo(w.h))

handleRedo(w) == applySnapshot(w, redo(w.h))

-----------------------------------------------------------------------------
(* Import.  A payload is what JSON.parse gave: not an array, or an array   *)
(* of items, some of which are objects with an id.                         *)

\* a number field that is null, undefined or NaN
Missing == -999

\* raw.x || fallback, for a number field
OrElse(x, fallback) == IF x = 0 \/ x = Missing THEN fallback ELSE x

DEFAULT_RADIUS == 25

DEFAULT_THICKNESS == 3

DEFAULT_TICK == 12

\* DEFAULT_PALETTE[0]
DEFAULT_COLOR == "#111827"

\* an entry of an elements array that is JSON null
JsonNull == [isNull |-> TRUE]

\* the TypeError a property read on null throws
TypeError == [throws |-> "TypeError"]

Threw(result) == "throws" \in DOMAIN result

\* element.field ?? fallback, for a string field: absent or null gives the
\* fallback
StrOr(element, field, fallback) ==
    IF field \in DOMAIN element /\ element[field] # Null THEN element[field] ELSE fallback

\* Number.isFinite(element.field) ? element.field : fallback
FiniteOr(element, field, fallback) ==
    IF field \in DOMAIN element /\ element[field] # Missing THEN element[field] ELSE fallback

\* normaliseElement: { ...element, field: ... } per type; reading element.type
\* of null throws
normaliseElement(element) ==
    IF element = JsonNull THEN TypeError
    ELSE LET type == StrOr(element, "type", Null)
         IN IF type = "player"
            THEN [label |-> StrOr(element, "label", ""),
                  color |-> StrOr(element, "color", DEFAULT_COLOR),
                  r |-> FiniteOr(element, "r", DEFAULT_RADIUS)] @@ element
            ELSE IF type = "ball"
            THEN [color |-> StrOr(element, "color", "#a16207")] @@ element
            ELSE IF type \in {"arrow", "line"}
            THEN [style |-> StrOr(element, "style", "solid"),
                  thickness |-> FiniteOr(element, "thickness", DEFAULT_THICKNESS),
                  color |-> StrOr(element, "color", DEFAULT_COLOR)] @@ element
            ELSE IF type = "perp_line"
            THEN [style |-> StrOr(element, "style", "solid"),
                  thickness |-> FiniteOr(element, "thickness", DEFAULT_THICKNESS),
                  tick |-> FiniteOr(element, "tick", DEFAULT_TICK),
                  color |-> StrOr(element, "color", DEFAULT_COLOR)] @@ element
            ELSE IF type \in {"rect", "zone"}
            THEN [color |-> StrOr(element, "color", DEFAULT_COLOR),
                  w |-> FiniteOr(element, "w", 0),
                  h |-> FiniteOr(element, "h", 0)] @@ element
            ELSE element

\* normalisePlay; an element that makes normaliseElement throw makes it throw
normalisePlay(raw) ==
    LET safeWidth == Max(1, OrElse(raw.fieldWidthYards, DEFAULT_FIELD_WIDTH))
        safeLength == Max(1, OrElse(raw.fieldLengthYards, DEFAULT_DIVISIONS))
        safeLOS == IF raw.lineOfScrimmage = Missing THEN DEFAULT_LINE_OF_SCRIMMAGE
                   ELSE clamp(raw.lineOfScrimmage, 0, safeLength)
    IN IF \E i \in 1..Len(raw.elements) : Threw(normaliseElement(raw.elements[i]))
       THEN TypeError
       ELSE [raw EXCEPT
               !.fieldWidthYards = safeWidth,
               !.fieldLengthYards = safeLength,
               !.lineOfScrimmage = safeLOS,
               !.size = computeFieldSize(safeWidth, safeLength),
               !.elements = [i \in 1..Len(raw.elements) |->
                                normaliseElement(raw.elements[i])]]

\* parseImportedPlays; a TypeError among the plays stands for the throw
parseImportedPlays(payload) ==
    IF ~payload.isArray THEN <<>>
    ELSE LET typed == SelectSeq(payload.items, LAMBDA item : item.hasId)
         IN [i \in 1..Len(typed) |-> normalisePlay(typed[i].play)]

\* reader.onload of handleImportJson; the catch block only logs
handleImportJson(w, payload) ==
    LET imported == parseImportedPlays(payload)
    IN IF Len(imported) = 0 \/ \E i \in 1..Len(imported) : Threw(imported[i]) THEN w
       ELSE LET old == [w EXCEPT !.heap = [r \in DOMAIN w.heap |->
                                             [w.heap[r] EXCEPT !.stale = TRUE]]]
                w1 == setPlays(old, imported)
                nextActive == imported[1].id
            IN [w1 EXCEPT
                  !.activeId = nextActive,
                  !.selectionId = Null,
                  !.h = reset(w1.h, [plays |-> w1.plays, activeId |-> nextActive])]

\* a stored play from an older schema: no field length, a stale size, a player
\* without a radius
OldPlay ==
    [id |-> "p2", name |-> "Imported",
     size |-> [w |-> 600, h |-> 800],
     lineOfScrimmage |-> 25,
     fieldWidthYards |-> 30,
     fieldLengthYards |-> Missing,
     elements |-> <<[id |-> "e1", type |-> "player", x |-> 150, y |-> 76, r |-> Missing]>>]

ImportPayloads ==
    {[isArray |-> FALSE, items |-> <<>>],
     [isArray |-> TRUE, items |-> <<[hasId |-> FALSE, play |-> OldPlay]>>],
     [isArray |-> TRUE, items |-> <<[hasId |-> FALSE, play |-> OldPlay],
                                    [hasId |-> TRUE, play |-> OldPlay]>>]}

-----------------------------------------------------------------------------
(* Field settings.  The inputs hand over finite numbers only (the handlers *)
(* are called behind Number.isFinite), here integers; an absent member of  *)
(* the update and a null line of scrimmage are Missing.                    *)

\* x ?? fallback
Nullish(x, fallback) == IF x = Missing THEN fallback ELSE x

\* a field change that keeps the stored pixel size
handleFieldDimensionsChange_keepsSize(w, update) ==
    updateActivePlay(w, [play \in CurrentPlays(w) |->
        [play EXCEPT
           !.fieldWidthYards = Max(1, Nullish(update.widthYards, play.fieldWidthYards)),
           !.fieldLengthYards = Max(1, Nullish(update.lengthYards, play.fieldLengthYards))]])

handleFieldDimensionsChange(w, update) ==
    updateActivePlay(w, [play \in CurrentPlays(w) |->
        LET nextWidth == Max(1, Nullish(update.widthYards,
                                   Nullish(play.fieldWidthYards, DEFAULT_FIELD_WIDTH)))
            nextLength == Max(1, Nullish(update.lengthYards,
                                    Nullish(play.fieldLengthYards, DEFAULT_DIVISIONS)))
            los == play.lineOfScrimmage
            clampedLos == IF los = Missing THEN Missing
                          ELSE Min(Max(0, los), nextLength)
        IN [play EXCEPT
              !.fieldWidthYards = nextWidth,
              !.fieldLengthYards = nextLength,
              !.lineOfScrimmage = clampedLos,
              !.size = computeFieldSize(nextWidth, nextLength)]])

handleLineOfScrimmageChange(w, value) ==
    updateActivePlay(w, [play \in CurrentPlays(w) |->
        IF value = Missing THEN [play EXCEPT !.lineOfScrimmage = Missing]
        ELSE LET maxLOS == Max(0, Nullish(play.fieldLengthYards, DEFAULT_DIVISIONS))
             IN [play EXCEPT !.lineOfScrimmage = clamp(value, 0, maxLOS)]])

-----------------------------------------------------------------------------
(* PlayCanvas.  Pointer positions are given in field coordinates (what     *)
(* clientToSvg returns) and are integers, so that every comparison of      *)
(* distances is made on their squares.                                     *)

playerRadius == 25

\* App: useState thickness
thickness == 3

SNAP_RADIUS == 18

Tools == {"player", "ball"}

PointerXs == {150}
PointerYs == {58, 150}

Sq(n) == n * n

Abs(n) == IF n < 0 THEN -n ELSE n

IsLineType(type) == type \in {"arrow", "line", "perp_line"}

IsRectType(type) == type \in {"rect", "zone"}

isDrawingTool(type) == IsLineType(type) \/ IsRectType(type)

divisions(play) == Max(1, OrElse(play.fieldLengthYards, DEFAULT_DIVISIONS))

dimensions(play) ==
    computeFieldSize(Max(1, OrElse(play.fieldWidthYards, DEFAULT_FIELD_WIDTH)),
                     divisions(play))

\* fieldHeight / divisions; the height is a multiple of the divisions
lineSpacing(play) ==
    (dimensions(play).h - FIELD_MARGIN_VERTICAL * 2) \div divisions(play)

\* a row computation that does not clamp the row to 0..divisions
snapToYardLine_unclamped(y, play) ==
    FIELD_MARGIN_VERTICAL
        + Round(y - FIELD_MARGIN_VERTICAL, lineSpacing(play)) * lineSpacing(play)

snapToYardLine(y, play) ==
    IF lineSpacing(play) <= 0 THEN y
    ELSE LET nearest == Round(y - FIELD_MARGIN_VERTICAL, lineSpacing(play))
             clamped == clamp(nearest, 0, divisions(play))
         IN FIELD_MARGIN_VERTICAL + clamped * lineSpacing(play)

\* an addElement that stores the element with the id it came with
addElement_keepsId(w, id, element) ==
    LET play == activePlay(w)
    IN handleActivePlayChange(w, [play EXCEPT !.elements = Append(play.elements, element)])

\* addElement: onChange({...play, elements: [...play.elements, created]})
addElement(w, id, element) ==
    LET play == activePlay(w)
        created == [element EXCEPT !.id = id]
    IN handleActivePlayChange(w, [play EXCEPT !.elements = Append(play.elements, created)])

\* the candidates one element contributes, in the order they are pushed
candidates(element, locked) ==
    (IF locked /\ element.type = "player"
     THEN <<[x |-> element.x, y |-> element.y]>> ELSE <<>>)
    \o (IF IsLineType(element.type)
        THEN <<[x |-> element.x1, y |-> element.y1], [x |-> element.x2, y |-> element.y2]>>
        ELSE <<>>)

\* the inner loop of findSnapPoint over one element's candidates: best is
\* <<nearest, minDistance squared>>; Math.hypot(...) < 0.5 holds of integer
\* coordinates exactly when the points coincide
RECURSIVE scanCandidates(_, _, _, _, _)
scanCandidates(cs, x, y, exclude, best) ==
    IF cs = <<>> THEN best
    ELSE LET candidate == Head(cs)
             skipped == /\ exclude # <<>>
                        /\ 4 * (Sq(candidate.x - exclude[1].x)
                                  + Sq(candidate.y - exclude[1].y)) < 1
             distance2 == Sq(candidate.x - x) + Sq(candidate.y - y)
         IN scanCandidates(Tail(cs), x, y, exclude,
                IF ~skipped /\ distance2 < best.minDistance2
                THEN [nearest |-> <<candidate>>, minDistance2 |-> distance2]
                ELSE best)

\* the outer loop over play.elements
RECURSIVE scanElements(_, _, _, _, _, _)
scanElements(elements, locked, x, y, exclude, best) ==
    IF elements = <<>> THEN best
    ELSE scanElements(Tail(elements), locked, x, y, exclude,
             scanCandidates(candidates(Head(elements), locked), x, y, exclude, best))

\* a search that also accepts a candidate at exactly the snap radius
findSnapPoint_inclusive(elements, locked, x, y, exclude) ==
    scanElements(elements, locked, x, y, exclude,
                 [nearest |-> <<>>, minDistance2 |-> Sq(SNAP_RADIUS) + 1]).nearest

\* findSnapPoint(x, y, exclude) of a canvas showing `elements`; the result
\* is <<>> for null and <<point>> otherwise
findSnapPoint(elements, locked, x, y, exclude) ==
    scanElements(elements, locked, x, y, exclude,
                 [nearest |-> <<>>, minDistance2 |-> Sq(SNAP_RADIUS)]).nearest

\* snapPoint?.x ?? x, snapPoint?.y ?? y
PointOr(snapPoint, x, y) == IF snapPoint = <<>> THEN [x |-> x, y |-> y] ELSE snapPoint[1]

\* a press that starts every line draft at the raw pointer position
handleSvgPointerDown_rawStart(w, x, y, id) ==
    LET els == activePlay(w).elements
        w1 == IF w.playersLocked
              THEN [w EXCEPT !.snapCandidate = findSnapPoint(els, w.playersLocked, x, y, <<>>)]
              ELSE w
    IN IF w.tool = "player"
       THEN addElement(w1, id, [id |-> Null, type |-> "player", x |-> x,
                                y |-> snapToYardLine(y, activePlay(w)), r |-> playerRadius])
       ELSE IF w.tool = "ball"
       THEN addElement(w1, id, [id |-> Null, type |-> "ball", x |-> x, y |-> y])
       ELSE IF IsLineType(w.tool)
       THEN LET start == [x |-> x, y |-> y]
                common == [id |-> "draft", type |-> w.tool,
                           x1 |-> start.x, y1 |-> start.y,
                           x2 |-> start.x, y2 |-> start.y,
                           thickness |-> thickness]
            IN [w1 EXCEPT !.draftState =
                   IF w.tool = "perp_line" THEN common @@ [tick |-> 12] ELSE common]
       ELSE IF IsRectType(w.tool)
       THEN [w1 EXCEPT !.draftState =
                [id |-> "draft", type |-> w.tool, x |-> x, y |-> y, w |-> 0, h |-> 0]]
       ELSE handleSelectionChange(w1, Null)

\* handleSvgPointerDown; id is what generateUid() returns if it is called
handleSvgPointerDown(w, x, y, id) ==
    LET els == activePlay(w).elements
        w1 == IF w.playersLocked
              THEN [w EXCEPT !.snapCandidate = findSnapPoint(els, w.playersLocked, x, y, <<>>)]
              ELSE w
    IN IF w.tool = "player"
       THEN addElement(w1, id, [id |-> Null, type |-> "player", x |-> x,
                                y |-> snapToYardLine(y, activePlay(w)), r |-> playerRadius])
       ELSE IF w.tool = "ball"
       THEN addElement(w1, id, [id |-> Null, type |-> "ball", x |-> x, y |-> y])
       ELSE IF IsLineType(w.tool)
       THEN LET start == PointOr(findSnapPoint(els, w.playersLocked, x, y, <<>>), x, y)
                common == [id |-> "draft", type |-> w.tool,
                           x1 |-> start.x, y1 |-> start.y,
                           x2 |-> start.x, y2 |-> start.y,
                           thickness |-> thickness]
            IN [w1 EXCEPT !.draftState =
                   IF w.tool = "perp_line" THEN common @@ [tick |-> 12] ELSE common]
       ELSE IF IsRectType(w.tool)
       THEN [w1 EXCEPT !.draftState =
                [id |-> "draft", type |-> w.tool, x |-> x, y |-> y, w |-> 0, h |-> 0]]
       ELSE handleSelectionChange(w1, Null)

\* handleElementPointerDown on an element that takes the event (see Bubbles)
handleElementPointerDown(w, element, x, y) ==
    LET w1 == handleSelectionChange(w, element.id)
    IN IF element.type = "player" /\ w.playersLocked THEN w1
       ELSE IF element.type \in {"player", "ball"} \/ IsRectType(element.type)
       THEN [w1 EXCEPT !.dragState = [id |-> element.id, offsetX |-> x - element.x,
                                      offsetY |-> y - element.y]]
       ELSE IF IsLineType(element.type)
       THEN [w1 EXCEPT !.dragState = [id |-> element.id, offsetX |-> x - element.x1,
                                      offsetY |-> y - element.y1]]
       ELSE w1

\* an element handler that takes every mouse-down
Bubbles_never(w, element) == FALSE

\* handleElementPointerDown returns before stopPropagation: the mouse-down
\* goes on to the svg's handler
Bubbles(w, element) ==
    w.playersLocked /\ isDrawingTool(w.tool) /\ element.type = "player"

\* a drag that puts the element's anchor at the pointer itself
moveElement_anchorAtPointer(element, w, x, y) ==
    IF element.id # w.dragState.id THEN element
    ELSE IF element.type = "player"
    THEN IF w.playersLocked THEN element
         ELSE [element EXCEPT !.x = x, !.y = snapToYardLine(y, activePlay(w))]
    ELSE IF element.type = "ball" \/ IsRectType(element.type)
    THEN [element EXCEPT !.x = x, !.y = y]
    ELSE IF IsLineType(element.type)
    THEN [element EXCEPT !.x1 = x, !.y1 = y,
                         !.x2 = @ + x - element.x1, !.y2 = @ + y - element.y1]
    ELSE element

\* a dragged player that follows the pointer whatever the players lock says
moveElement_ignoresLock(element, w, x, y) ==
    IF element.id # w.dragState.id THEN element
    ELSE IF element.type = "player"
    THEN [element EXCEPT !.x = x - w.dragState.offsetX,
                         !.y = snapToYardLine(y - w.dragState.offsetY, activePlay(w))]
    ELSE IF element.type = "ball" \/ IsRectType(element.type)
    THEN [element EXCEPT !.x = x - w.dragState.offsetX,
                         !.y = y - w.dragState.offsetY]
    ELSE IF IsLineType(element.type)
    THEN LET deltaX == x - w.dragState.offsetX - element.x1
             deltaY == y - w.dragState.offsetY - element.y1
         IN [element EXCEPT !.x1 = element.x1 + deltaX,
                            !.y1 = element.y1 + deltaY,
                            !.x2 = element.x2 + deltaX,
                            !.y2 = element.y2 + deltaY]
    ELSE element

\* the callback of play.elements.map in handleSvgPointerMove
moveElement(element, w, x, y) ==
    IF element.id # w.dragState.id THEN element
    ELSE IF element.type = "player"
    THEN IF w.playersLocked THEN element
         ELSE [element EXCEPT !.x = x - w.dragState.offsetX,
                              !.y = snapToYardLine(y - w.dragState.offsetY, activePlay(w))]
    ELSE IF element.type = "ball" \/ IsRectType(element.type)
    THEN [element EXCEPT !.x = x - w.dragState.offsetX,
                         !.y = y - w.dragState.offsetY]
    ELSE IF IsLineType(element.type)
    THEN LET deltaX == x - w.dragState.offsetX - element.x1
             deltaY == y - w.dragState.offsetY - element.y1
         IN [element EXCEPT !.x1 = element.x1 + deltaX,
                            !.y1 = element.y1 + deltaY,
                            !.x2 = element.x2 + deltaX,
                            !.y2 = element.y2 + deltaY]
    ELSE element

\* a pointer-move whose draft end may snap to the draft's own start
handleSvgPointerMove_snapsToStart(w, x, y) ==
    LET play == activePlay(w)
        w1 == [w EXCEPT !.snapCandidate =
                  IF w.playersLocked /\ isDrawingTool(w.tool)
                  THEN findSnapPoint(play.elements, w.playersLocked, x, y, <<>>)
                  ELSE <<>>]
        draft == w.draftState
    IN IF draft = NoDraft /\ w.dragState = NoDrag THEN w1
       ELSE IF draft # NoDraft
       THEN IF IsLineType(draft.type)
            THEN LET end == PointOr(findSnapPoint(play.elements, w.playersLocked, x, y,
                                                  <<>>), x, y)
                 IN [w1 EXCEPT !.draftState = [draft EXCEPT !.x2 = end.x, !.y2 = end.y]]
            ELSE [w1 EXCEPT !.draftState = [draft EXCEPT !.w = x - draft.x, !.h = y - draft.y]]
       ELSE handleActivePlayChange(w1,
                [play EXCEPT !.elements = [i \in 1..Len(play.elements) |->
                                              moveElement(play.elements[i], w, x, y)]])

handleSvgPointerMove(w, x, y) ==
    LET play == activePlay(w)
        w1 == [w EXCEPT !.snapCandidate =
                  IF w.playersLocked /\ isDrawingTool(w.tool)
                  THEN findSnapPoint(play.elements, w.playersLocked, x, y, <<>>)
                  ELSE <<>>]
        draft == w.draftState
    IN IF draft = NoDraft /\ w.dragState = NoDrag THEN w1
       ELSE IF draft # NoDraft
       THEN IF IsLineType(draft.type)
            THEN LET end == PointOr(findSnapPoint(play.elements, w.playersLocked, x, y,
                                                  <<[x |-> draft.x1, y |-> draft.y1]>>), x, y)
                 IN [w1 EXCEPT !.draftState = [draft EXCEPT !.x2 = end.x, !.y2 = end.y]]
            ELSE [w1 EXCEPT !.draftState = [draft EXCEPT !.w = x - draft.x, !.h = y - draft.y]]
       ELSE handleActivePlayChange(w1,
                [play EXCEPT !.elements = [i \in 1..Len(play.elements) |->
                                              moveElement(play.elements[i], w, x, y)]])

\* a pointer-up that commits every draft
handleSvgPointerUp_noThreshold(w, id) ==
    IF w.draftState = NoDraft
    THEN [w EXCEPT !.dragState = NoDrag, !.snapCandidate = <<>>]
    ELSE [addElement(w, id, w.draftState) EXCEPT
             !.draftState = NoDraft, !.dragState = NoDrag, !.snapCandidate = <<>>]

\* a pointer-up that leaves the drag state as it is
handleSvgPointerUp_keepsDrag(w, id) ==
    IF w.draftState = NoDraft
    THEN [w EXCEPT !.snapCandidate = <<>>]
    ELSE [handleSvgPointerUp_noThreshold(w, id) EXCEPT !.dragState = w.dragState]

\* handleSvgPointerUp; a rejected draft returns before the drag and the snap
\* candidate are cleared
handleSvgPointerUp(w, id) ==
    LET draft == w.draftState
    IN IF draft = NoDraft
       THEN [w EXCEPT !.dragState = NoDrag, !.snapCandidate = <<>>]
       ELSE IF IsLineType(draft.type)
               /\ Sq(draft.x2 - draft.x1) + Sq(draft.y2 - draft.y1) < Sq(8)
       THEN [w EXCEPT !.draftState = NoDraft]
       ELSE IF IsRectType(draft.type) /\ (Abs(draft.w) < 6 \/ Abs(draft.h) < 6)
       THEN [w EXCEPT !.draftState = NoDraft]
       ELSE LET snapPoint ==
                    IF IsLineType(draft.type)
                    THEN findSnapPoint(activePlay(w).elements, w.playersLocked,
                                       draft.x2, draft.y2,
                                       <<[x |-> draft.x1, y |-> draft.y1]>>)
                    ELSE <<>>
                finalDraft == IF snapPoint # <<>>
                              THEN [draft EXCEPT !.x2 = snapPoint[1].x, !.y2 = snapPoint[1].y]
                              ELSE draft
            IN [addElement(w, id, finalDraft) EXCEPT
                  !.draftState = NoDraft, !.dragState = NoDrag, !.snapCandidate = <<>>]

\* the Delete or Backspace key
onKeyDown(w) ==
    IF w.selectionId = Null THEN w
    ELSE LET play == activePlay(w)
             kept == SelectSeq(play.elements, LAMBDA element : element.id # w.selectionId)
         IN handleSelectionChange(
                handleActivePlayChange(w, [play EXCEPT !.elements = kept]), Null)

\* Hit testing: what the pointer is over.  A point is on a stroke of width k
\* when it is within k/2 of the stroked path.

\* 2|n| <= k * sqrt(len2), where len2 = dx^2 + dy^2; a point too far off is
\* told by |dx| + |dy| >= sqrt(len2) before anything large is squared
WithinHalf(n, k, dx, dy) ==
    /\ 2 * Abs(n) <= k * (Abs(dx) + Abs(dy))
    /\ 4 * Sq(n) <= Sq(k) * (Sq(dx) + Sq(dy))

\* (x, y) is within k/2 of the segment from (x1, y1) to (x2, y2)
NearSegment(x, y, x1, y1, x2, y2, k) ==
    LET len2 == Sq(x2 - x1) + Sq(y2 - y1)
        dot == (x - x1) * (x2 - x1) + (y - y1) * (y2 - y1)
        cross == (x - x1) * (y2 - y1) - (y - y1) * (x2 - x1)
        a2 == Sq(x - x1) + Sq(y - y1)
        b2 == Sq(x - x2) + Sq(y - y2)
    IN IF len2 = 0 \/ dot <= 0 THEN 4 * a2 <= Sq(k)
       ELSE IF dot >= len2 THEN 4 * b2 <= Sq(k)
       ELSE WithinHalf(cross, k, x2 - x1, y2 - y1)

\* (x, y) is on the outline, of stroke width k, of the box at (bx, by) of
\* size bw by bh (no box is drawn unless both are positive)
OnOutline(x, y, bx, by, bw, bh, k) ==
    /\ bw > 0 /\ bh > 0
    /\ \/ NearSegment(x, y, bx, by, bx + bw, by, k)
       \/ NearSegment(x, y, bx, by + bh, bx + bw, by + bh, k)
       \/ NearSegment(x, y, bx, by, bx, by + bh, k)
       \/ NearSegment(x, y, bx + bw, by, bx + bw, by + bh, k)

\* the tick of a perpendicular line: `tick` long, across the end (x2, y2)
OnTick(element, x, y) ==
    LET dx == element.x2 - element.x1
        dy == element.y2 - element.y1
        len2 == Sq(dx) + Sq(dy)
        along == (x - element.x2) * dx + (y - element.y2) * dy
        across == (y - element.y2) * dx - (x - element.x2) * dy
    IN IF len2 = 0
       THEN 4 * (Sq(x - element.x2) + Sq(y - element.y2)) <= Sq(Max(1, element.thickness))
       ELSE /\ WithinHalf(along, Max(1, element.thickness), dx, dy)
            /\ WithinHalf(across, element.tick, dx, dy)

\* PlayerNode, the ball's group, ArrowNode, LineNode, PerpendicularNode and
\* RectNode: the painted area of an element, with its selection marks
Covers(element, selected, x, y) ==
    IF element.type \in {"player", "ball"}
    THEN LET d2 == Sq(x - element.x) + Sq(y - element.y)
         IN IF element.type = "player"
            THEN LET radius == IF element.r = 0 THEN playerRadius ELSE element.r
                 IN \/ d2 <= Sq(radius)
                    \/ selected /\ Sq(radius + 3) <= d2 /\ d2 <= Sq(radius + 5)
            ELSE \/ 25 * Sq(x - element.x) + 64 * Sq(y - element.y) <= 9216
                 \/ selected /\ Sq(17) <= d2 /\ d2 <= Sq(19)
    ELSE IF IsLineType(element.type)
    THEN \/ /\ element.type = "arrow" =>
                 element.x1 # element.x2 \/ element.y1 # element.y2
            /\ NearSegment(x, y, element.x1, element.y1, element.x2, element.y2,
                           element.thickness)
         \/ element.type = "perp_line" /\ OnTick(element, x, y)
         \/ /\ selected
            /\ \/ Sq(x - element.x1) + Sq(y - element.y1) <= Sq(6)
               \/ Sq(x - element.x2) + Sq(y - element.y2) <= Sq(6)
    ELSE \/ OnOutline(x, y, element.x, element.y, element.w, element.h,
                       IF element.type = "zone" THEN 1 ELSE 2)
         \/ /\ element.type = "zone"
            /\ element.w > 0 /\ element.h > 0
            /\ element.x <= x /\ x <= element.x + element.w
            /\ element.y <= y /\ y <= element.y + element.h
         \/ selected /\ OnOutline(x, y, element.x - 4, element.y - 4,
                                  element.w + 8, element.h + 8, 2)

\* what is drawn, bottom to top: the elements, then the draft (drawn as
\* selected)
Drawn(w) ==
    activePlay(w).elements \o (IF w.draftState = NoDraft THEN <<>> ELSE <<w.draftState>>)

\* the topmost drawn thing under the pointer (0: none)
TopElement(w, x, y) ==
    LET els == Drawn(w)
        hit == {i \in 1..Len(els) :
                   Covers(els[i], w.selectionId = els[i].id \/ els[i].id = "draft", x, y)}
    IN IF hit = {} THEN 0 ELSE CHOOSE i \in hit : \A j \in hit : j <= i

\* the mouse-down handlers that run for a press at (x, y)
onMouseDown(w, x, y, id) ==
    LET top == TopElement(w, x, y)
    IN IF top = 0 \/ Bubbles(w, Drawn(w)[top])
       THEN handleSvgPointerDown(w, x, y, id)
       ELSE handleElementPointerDown(w, Drawn(w)[top], x, y)

-----------------------------------------------------------------------------
(* Spec: the App.  Init is the state the first render starts from: one     *)
(* default play (nothing in storage), the history manager just created.    *)

DEFAULT_PLAY_COUNT == 4

InitialPlays == <<createEmptyPlay("p1", "Play 1")>>

getDefaultWristConfig == [playCount |-> DEFAULT_PLAY_COUNT, selectedIds |-> <<>>]

InitialW ==
    [plays |-> 1,
     activeId |-> InitialPlays[1].id,
     selectionId |-> Null,
     tool |-> "player",
     wristConfig |-> getDefaultWristConfig,
     dragState |-> NoDrag,
     draftState |-> NoDraft,
     snapCandidate |-> <<>>,
     playersLocked |-> FALSE,
     heap |-> (1 :> [list |-> InitialPlays, stale |-> FALSE]),
     h |-> useHistory([plays |-> 1, activeId |-> InitialPlays[1].id])]

Init ==
    /\ plays = InitialW.plays
    /\ activeId = InitialW.activeId
    /\ selectionId = InitialW.selectionId
    /\ tool = InitialW.tool
    /\ wristConfig = InitialW.wristConfig
    /\ dragState = InitialW.dragState
    /\ draftState = InitialW.draftState
    /\ snapCandidate = InitialW.snapCandidate
    /\ playersLocked = InitialW.playersLocked
    /\ probe = <<>>
    /\ heap = InitialW.heap
    /\ HIs(InitialW.h)
    /\ mounted = FALSE
    /\ nEvents = 0
    /\ ev = [name |-> "none", ret |-> <<>>, pre |-> InitialW,
             prior |-> [name |-> "none", doc |-> Doc(InitialW)]]
    /\ call = [op |-> "create", arg |-> <<>>, ret |-> <<>>,
               pre |-> InitialW.h, prior |-> [op |-> "none", null |-> TRUE]]
    /\ script = ScriptOff

\* the first render is committed and its effects run
Mount ==
    /\ ~mounted
    /\ mounted' = TRUE
    /\ SetW(Collect(Commit(W, W, TRUE)))
    /\ ev' = [ev EXCEPT !.name = "mount"]
    /\ UNCHANGED <<nEvents, call, script, probe>>

\* a user event whose handler takes the state to w1 and returns ret
Event(name, ret, w1) ==
    /\ mounted
    /\ nEvents < MaxEvents
    /\ nEvents' = nEvents + 1
    /\ SetW(Collect(Render(W, w1)))
    /\ ev' = [name |-> name, ret |-> ret, pre |-> W,
              prior |-> [name |-> ev.name, doc |-> Doc(ev.pre)]]
    /\ UNCHANGED <<mounted, call, script, probe>>

\* mouse down: on the topmost element under the pointer, else on the canvas
PointerDown ==
    \E x \in PointerXs, y \in PointerYs, id \in generateUid :
        /\ HasActivePlay(W)
        /\ LET top == TopElement(W, x, y)
           IN IF top # 0 /\ ~Bubbles(W, Drawn(W)[top])
              THEN Event("pointerDownElement", <<>>, onMouseDown(W, x, y, id))
              ELSE Event("pointerDownCanvas", <<>>, onMouseDown(W, x, y, id))

PointerMove ==
    \E x \in PointerXs, y \in PointerYs :
        /\ HasActivePlay(W)
        /\ Event("pointerMove", <<>>, handleSvgPointerMove(W, x, y))

PointerUp ==
    \E id \in generateUid :
        /\ HasActivePlay(W)
        /\ Event("pointerUp", <<>>, handleSvgPointerUp(W, id))

\* the Delete or Backspace key
DeleteKey ==
    /\ HasActivePlay(W)
    /\ Event("deleteKey", <<>>, onKeyDown(W))

UndoClick == Event("undo", undo(H).ret, handleUndo(W))

RedoClick == Event("redo", redo(H).ret, handleRedo(W))

ClearPlay ==
    \E confirmed \in BOOLEAN :
        Event("clearPlay", <<confirmed>>, handleClearPlay(W, confirmed))

ToolChange == \E next \in Tools : Event("toolChange", <<>>, handleToolChange(W, next))

ImportJson ==
    \E payload \in ImportPayloads :
        Event("import", IF Len(parseImportedPlays(payload)) = 0 THEN <<>> ELSE <<"imported">>,
              handleImportJson(W, payload))

Next ==
    \/ Mount
    \/ PointerDown
    \/ PointerMove
    \/ PointerUp
    \/ DeleteKey
    \/ UndoClick
    \/ RedoClick
    \/ ToolChange
    \/ ClearPlay
    \/ ImportJson

Spec == Init /\ [][Next]_vars

-----------------------------------------------------------------------------
(* Claims about the App, checked under Spec *)

LiveSnapshot == [plays |-> plays, activeId |-> activeId]

\* C7: undo() on an empty undo stack and redo() on an empty redo stack return
\* null and change nothing: not the stacks, the baseline or skip-next, and
\* not the App's state.
C7_NullIsNoOp ==
    /\ (ev.name = "undo" /\ ev.pre.h.undoStack = <<>>) =>
         /\ ev.ret = <<>>
         /\ W = ev.pre
    /\ (ev.name = "redo" /\ ev.pre.h.redoStack = <<>>) =>
         /\ ev.ret = <<>>
         /\ W = ev.pre

\* an undo and then a redo, both on empty stacks, with skip-next not armed
C7_Witness ==
    /\ ev.name = "redo"
    /\ ev.prior.name = "undo"
    /\ ev.pre.h.undoStack = <<>>
    /\ ev.pre.h.redoStack = <<>>
    /\ ~ev.pre.h.skipNext
    /\ ev.ret = <<>>

\* C8: reset(s) leaves both stacks empty, s as the baseline and skip-next
\* armed; once an import has been rendered every snapshot the history manager
\* holds is the imported document, and no undo (or redo) from then on
\* returns a snapshot of the document the import replaced.
C8_ImportResets ==
    /\ reset(H, LiveSnapshot)
         = [undoStack |-> <<>>, redoStack |-> <<>>,
            previous |-> LiveSnapshot, skipNext |-> TRUE]
    /\ (ev.name = "import" /\ ev.ret # <<>>) =>
         /\ plays \notin DOMAIN ev.pre.heap
         /\ redoStackRef = <<>>
         /\ HistRefs(H) = {plays}
    /\ \A r \in HistRefs(H) \cup {plays} : ~heap[r].stale
    /\ (ev.name \in {"undo", "redo"} /\ ev.ret # <<>>) =>
         ~ev.pre.heap[ev.ret[1].plays].stale

\* an undo that returns a snapshot after an import replaced an edited document
C8_Witness ==
    /\ ev.name = "undo"
    /\ ev.ret # <<>>
    /\ PlaysOf(W)[1].id = "p2"
    /\ ev.prior.name # "import"
    /\ undoStackRef = <<>>

\* C9: a Delete key press with a selection removes the selected element from
\* the active play and clears the selection (a play with only that element is
\* left with none), and an undo right after it restores the document as it
\* was just before the key press.
C9_UndoRestoresDeleted ==
    /\ (ev.name = "deleteKey" /\ ev.pre.selectionId # Null) =>
         /\ selectionId = Null
         /\ activePlay(W).elements
              = SelectSeq(activePlay(ev.pre).elements,
                          LAMBDA element : element.id # ev.pre.selectionId)
         /\ Len(activePlay(W).elements) < Len(activePlay(ev.pre).elements)
    /\ (ev.name = "undo" /\ ev.prior.name = "deleteKey"
            /\ ev.prior.doc # Doc(ev.pre)) =>
         /\ ev.ret # <<>>
         /\ Doc(W) = ev.prior.doc

\* the scenario: one default play, a player placed at (150,150), selected,
\* deleted, and brought back by one undo on yard row 3
C9_Witness ==
    /\ ev.name = "undo"
    /\ ev.prior.name = "deleteKey"
    /\ Len(PlaysOf(ev.pre)) = 1
    /\ PlaysOf(ev.pre)[1].elements = <<>>
    /\ PlaysOf(W) = <<[createEmptyPlay("p1", "Play 1") EXCEPT
                         !.elements = <<[id |-> "e1", type |-> "player", x |-> 150,
                                         y |-> 148, r |-> 25]>>]>>

\* C10: an array of plays a stored snapshot refers to keeps its content for
\* as long as the history manager holds the snapshot, whatever is done to the
\* live state.
C10_SnapshotsIndependent ==
    \A r \in HistRefs(H) \cap HistRefs(ev.pre.h) :
        heap[r].list = ev.pre.heap[r].list

\* a drag moved an element while older snapshots of the play are stored
C10_Witness ==
    /\ ev.name = "pointerMove"
    /\ Len(undoStackRef) >= 2
    /\ undoStackRef[Len(undoStackRef)].plays \in HistRefs(ev.pre.h)
    /\ heap[undoStackRef[Len(undoStackRef)].plays].list # PlaysOf(W)
    /\ heap[undoStackRef[1].plays].list # heap[undoStackRef[Len(undoStackRef)].plays].list

\* C27: an event that changes neither the plays collection nor the active
\* id (a change of selection, tool or another setting) adds no undo entry and
\* does not clear the redo stack.
C27_OnlyDocumentChangesRegister ==
    (ev.name \notin {"none", "undo", "redo", "import"}
        /\ plays = ev.pre.plays /\ activeId = ev.pre.activeId) =>
        /\ undoStackRef = ev.pre.h.undoStack
        /\ redoStackRef = ev.pre.h.redoStack

\* C28: right after an edit of the document by a handler other than undo,
\* redo and import, undo() returns the document as it was before the edit
\* and redo() returns null.
C28_EditsAreRegistered ==
    (ev.name \notin {"none", "undo", "redo", "import"} /\ Doc(W) # Doc(ev.pre)) =>
        /\ undo(H).ret = <<[plays |-> ev.pre.plays, activeId |-> ev.pre.activeId]>>
        /\ redo(H).ret = <<>>

-----------------------------------------------------------------------------
(* SpecPlays: the App's play collection.  Plays are added, duplicated,     *)
(* deleted, selected, resized, given a line of scrimmage, imported, undone *)
(* and redone.                                                             *)

MaxPlayEvents == 3

\* generateUid() for a new play
PlayUids == {"p2", "p3"}

\* a play of a file whose field is shorter than the default line of scrimmage
ShortPlay ==
    [id |-> "p3", name |-> "Red zone",
     size |-> [w |-> 600, h |-> 800],
     lineOfScrimmage |-> Missing,
     fieldWidthYards |-> 30,
     fieldLengthYards |-> 3,
     elements |-> <<>>]

\* a play of a file in which two elements carry the same id
TwinPlay ==
    [id |-> "p2", name |-> "Twins",
     size |-> [w |-> 1160, h |-> 800],
     lineOfScrimmage |-> 5,
     fieldWidthYards |-> 30,
     fieldLengthYards |-> 20,
     elements |-> <<[id |-> "e1", type |-> "player", x |-> 150, y |-> 76, r |-> 25],
                    [id |-> "e1", type |-> "ball", x |-> 300, y |-> 200]>>]

\* files: one old play; a short play; the same play twice; a play with twins
PlaysPayloads ==
    {[isArray |-> TRUE, items |-> <<[hasId |-> TRUE, play |-> OldPlay]>>],
     [isArray |-> TRUE, items |-> <<[hasId |-> TRUE, play |-> ShortPlay]>>],
     [isArray |-> TRUE, items |-> <<[hasId |-> TRUE, play |-> OldPlay],
                                    [hasId |-> TRUE, play |-> OldPlay]>>],
     [isArray |-> TRUE, items |-> <<[hasId |-> TRUE, play |-> TwinPlay]>>]}

FieldUpdates ==
    {[widthYards |-> 10, lengthYards |-> Missing],
     [widthYards |-> Missing, lengthYards |-> 3],
     [widthYards |-> Missing, lengthYards |-> 0]}

LosValues == {Missing, 999, -5}

PlaysEvent(name, ret, w1) == nEvents < MaxPlayEvents /\ Event(name, ret, w1)

AddPlay == \E id \in PlayUids : PlaysEvent("addPlay", <<id>>, handleAddPlay(W, id))

DuplicatePlay ==
    \E id \in PlayUids :
        /\ HasActivePlay(W)
        /\ \E ids \in [1..Len(activePlay(W).elements) -> generateUid] :
              PlaysEvent("duplicatePlay", <<id>>, handleDuplicatePlay(W, id, ids))

DeletePlay == PlaysEvent("deletePlay", <<>>, handleDeletePlay(W))

SelectPlay ==
    \E i \in 1..Len(PlaysOf(W)) :
        PlaysEvent("selectPlay", <<>>, handlePlaySelectChange(W, PlaysOf(W)[i].id))

FieldDimensionsChange ==
    \E update \in FieldUpdates :
        PlaysEvent("fieldDimensions", <<update>>, handleFieldDimensionsChange(W, update))

LineOfScrimmageChange ==
    \E value \in LosValues :
        PlaysEvent("lineOfScrimmage", <<value>>, handleLineOfScrimmageChange(W, value))

ImportPlays ==
    \E payload \in PlaysPayloads :
        PlaysEvent("import", <<"imported">>, handleImportJson(W, payload))

UndoPlays == nEvents < MaxPlayEvents /\ UndoClick

RedoPlays == nEvents < MaxPlayEvents /\ RedoClick

\* a click on the canvas or on an element of the active play
PointerDownPlays == nEvents < MaxPlayEvents /\ PointerDown

NextPlays ==
    \/ Mount
    \/ AddPlay
    \/ DuplicatePlay
    \/ DeletePlay
    \/ SelectPlay
    \/ FieldDimensionsChange
    \/ LineOfScrimmageChange
    \/ ImportPlays
    \/ UndoPlays
    \/ RedoPlays
    \/ PointerDownPlays

SpecPlays == Init /\ [][NextPlays]_vars

-----------------------------------------------------------------------------
(* Claims about the play collection, checked under SpecPlays *)

\* the snapshots the history manager holds
HeldSnapshots ==
    {previousRef}
        \cup {undoStackRef[i] : i \in 1..Len(undoStackRef)}
        \cup {redoStackRef[i] : i \in 1..Len(redoStackRef)}

PlayIdsOf(list) == {list[i].id : i \in 1..Len(list)}

ActiveIdValid(list, id) == (Len(list) > 0 /\ id # Null) => id \in PlayIdsOf(list)

\* C11: in the designer state and in every snapshot the history manager
\* holds, a non-null active id names a play of the (non-empty) collection.
C11_ActiveIdNamesAPlay ==
    /\ ActiveIdValid(PlaysOf(W), activeId)
    /\ \A s \in HeldSnapshots : ActiveIdValid(heap[s.plays].list, s.activeId)

\* the active one of two plays was deleted; the snapshot before it is held
C11_Witness ==
    /\ ev.name = "deletePlay"
    /\ Len(PlaysOf(ev.pre)) = 2
    /\ Len(PlaysOf(W)) = 1
    /\ activeId # ev.pre.activeId
    /\ activeId = PlaysOf(W)[1].id
    /\ \E s \in HeldSnapshots : s.activeId = ev.pre.activeId /\ s.plays = ev.pre.plays

\* C12: the plays collection is never empty: deleting the only remaining
\* play changes nothing, and no import, undo or redo leaves no play.
C12_NeverEmpty ==
    /\ Len(PlaysOf(W)) > 0
    /\ (ev.name = "deletePlay" /\ Len(PlaysOf(ev.pre)) = 1) => Doc(W) = Doc(ev.pre)
    /\ \A s \in HeldSnapshots : Len(heap[s.plays].list) > 0

\* every play of the designer state and of the snapshots held
AllPlays ==
    UNION {CurrentPlays(W)}
        \cup UNION {{heap[s.plays].list[i] : i \in 1..Len(heap[s.plays].list)} :
                      s \in HeldSnapshots}

\* C13: every play's line of scrimmage is null or lies between 0 and the
\* play's field length in yards, whatever was edited, imported, undone or
\* redone; 999 on a 20-yard field is stored as 20 and -5 as 0.
C13_LineOfScrimmageInField ==
    /\ \A play \in AllPlays :
          \/ play.lineOfScrimmage = Missing
          \/ 0 <= play.lineOfScrimmage /\ play.lineOfScrimmage <= play.fieldLengthYards
    /\ (ev.name = "lineOfScrimmage" /\ HasActivePlay(ev.pre) /\ ev.pre.activeId # Null
            /\ activePlay(ev.pre).fieldLengthYards = 20) =>
          /\ ev.ret = <<999>> => activePlay(W).lineOfScrimmage = 20
          /\ ev.ret = <<-5>> => activePlay(W).lineOfScrimmage = 0

\* C14: every play's size is computeFieldSize of its own yard dimensions.
C14_SizeIsDerived ==
    \A play \in AllPlays :
        play.size = computeFieldSize(play.fieldWidthYards, play.fieldLengthYards)

\* the field of a play was made 10 yards wide and then 3 yards long
C14_Witness ==
    /\ ev.name = "fieldDimensions"
    /\ ev.ret[1].lengthYards = 3
    /\ activePlay(W).fieldWidthYards = 10
    /\ activePlay(W).size = [w |-> 440, h |-> 188]
    /\ activePlay(ev.pre).size = [w |-> 440, h |-> 800]

\* C15: no two elements of one play share an id, in the designer state and
\* in every snapshot held, whether the elements were placed on the canvas,
\* copied with their play, imported, undone or redone.
C15_ElementIdsUnique ==
    \A play \in AllPlays :
        \A i, j \in 1..Len(play.elements) :
            play.elements[i].id = play.elements[j].id => i = j

\* what Duplicate play did apart from choosing ids: one play appended, the
\* plays before it untouched, the copy's elements equal to the original's up
\* to their ids, the copy active and nothing selected
DuplicateCopies ==
    LET pre == PlaysOf(ev.pre)
        post == PlaysOf(W)
        original == activePlay(ev.pre)
        copy == post[Len(post)]
    IN /\ Len(post) = Len(pre) + 1
       /\ SubSeq(post, 1, Len(pre)) = pre
       /\ Len(copy.elements) = Len(original.elements)
       /\ \A k \in 1..Len(original.elements) :
             [copy.elements[k] EXCEPT !.id = original.elements[k].id] = original.elements[k]
       /\ activeId = copy.id
       /\ selectionId = Null

\* C22: duplicating the active play appends exactly one play whose id
\* differs from every existing play id and whose elements are, in order,
\* copies of the original's elements with the same type and geometry and
\* with ids that differ from every id in the original; the plays that were
\* there are unchanged, the copy is the active play and nothing is selected.
C22_DuplicateIsFreshCopy ==
    ev.name = "duplicatePlay" =>
        LET pre == PlaysOf(ev.pre)
            original == activePlay(ev.pre)
            copy == PlaysOf(W)[Len(PlaysOf(W))]
        IN /\ DuplicateCopies
           /\ \A i \in 1..Len(pre) : pre[i].id # copy.id
           /\ \A k \in 1..Len(copy.elements), m \in 1..Len(original.elements) :
                 copy.elements[k].id # original.elements[m].id

-----------------------------------------------------------------------------
(* SpecCanvas: the canvas of one play.  The App starts from the play found *)
(* in storage (none, or one with a player on it) with some tool chosen;    *)
(* the pointer is pressed, moved and released at the points below and the  *)
(* players lock is switched on and off.  A press finds a draft when the    *)
(* mouse button of the press before was released outside the canvas.       *)

MaxCanvasEvents == 3

CanvasTools == {"player", "ball", "arrow", "line", "perp_line", "rect", "zone"}

\* what loadPlaysFromStorage() returns: nothing, or a play saved earlier
StoredPlays ==
    {InitialPlays,
     <<[createEmptyPlay("p1", "Play 1") EXCEPT
          !.elements = <<[id |-> "e1", type |-> "player", x |-> 100, y |-> 112,
                          r |-> 25]>>]>>}

InitCanvas ==
    /\ plays = InitialW.plays
    /\ activeId = InitialW.activeId
    /\ selectionId = InitialW.selectionId
    /\ tool \in CanvasTools
    /\ wristConfig = InitialW.wristConfig
    /\ dragState = InitialW.dragState
    /\ draftState = InitialW.draftState
    /\ snapCandidate = InitialW.snapCandidate
    /\ playersLocked = InitialW.playersLocked
    /\ probe = <<>>
    /\ \E stored \in StoredPlays : heap = (1 :> [list |-> stored, stale |-> FALSE])
    /\ HIs(InitialW.h)
    /\ mounted = FALSE
    /\ nEvents = 0
    /\ ev = [name |-> "none", ret |-> <<>>, pre |-> [W EXCEPT !.tool = InitialW.tool],
             prior |-> [name |-> "none", doc |-> Doc(W)]]
    /\ call = [op |-> "create", arg |-> <<>>, ret |-> <<>>,
               pre |-> InitialW.h, prior |-> [op |-> "none", null |-> TRUE]]
    /\ script = ScriptOff


\* pointer positions: a start, ends 7, 8 and 9 below it, corners 5 by 20 and
\* 6 by 6 away, and points above and below the field
CanvasPoints ==
    {<<100, 100>>, <<100, 107>>, <<100, 108>>, <<100, 109>>,
     <<105, 120>>, <<106, 106>>, <<100, 10>>, <<100, 790>>}

CanvasEvent(name, ret, w1) == nEvents < MaxCanvasEvents /\ Event(name, ret, w1)

TogglePlayersLocked == CanvasEvent("toggleLock", <<>>, handleTogglePlayersLocked(W))

CanvasPointerDown ==
    \E p \in CanvasPoints, id \in generateUid :
        LET top == TopElement(W, p[1], p[2])
        IN CanvasEvent(IF top # 0 /\ ~Bubbles(W, Drawn(W)[top])
                       THEN "pointerDownElement" ELSE "pointerDownCanvas",
                       <<p[1], p[2]>>, onMouseDown(W, p[1], p[2], id))

CanvasPointerMove ==
    \E p \in CanvasPoints :
        CanvasEvent("pointerMove", <<p[1], p[2]>>, handleSvgPointerMove(W, p[1], p[2]))

CanvasPointerUp ==
    \E id \in generateUid : CanvasEvent("pointerUp", <<>>, handleSvgPointerUp(W, id))

CanvasDeleteKey == CanvasEvent("deleteKey", <<>>, onKeyDown(W))

NextCanvas ==
    \/ Mount
    \/ TogglePlayersLocked
    \/ CanvasPointerDown
    \/ CanvasPointerMove
    \/ CanvasPointerUp
    \/ CanvasDeleteKey

SpecCanvas == InitCanvas /\ [][NextCanvas]_vars

-----------------------------------------------------------------------------
(* Claims about the canvas, checked under SpecCanvas *)

PreElements == activePlay(ev.pre).elements

PostElements == activePlay(W).elements

\* the draft a pointer-up found is too short, or too narrow or too low
DraftTooSmall(draft) ==
    \/ /\ IsLineType(draft.type)
       /\ Sq(draft.x2 - draft.x1) + Sq(draft.y2 - draft.y1) < 64
    \/ /\ IsRectType(draft.type)
       /\ \/ (-6 < draft.w /\ draft.w < 6)
          \/ (-6 < draft.h /\ draft.h < 6)

\* C17: a pointer-up on a line, arrow or perpendicular-line draft shorter
\* than 8, or on a rect or zone draft narrower or lower than 6, in whatever
\* direction it was dragged, leaves the document as it was and discards the
\* draft; on any other draft it appends exactly one element of the draft's
\* type and discards the draft.
C17_SmallDraftsRejected ==
    (ev.name = "pointerUp" /\ ev.pre.draftState # NoDraft) =>
        /\ draftState = NoDraft
        /\ IF DraftTooSmall(ev.pre.draftState)
           THEN plays = ev.pre.plays /\ Doc(W) = Doc(ev.pre)
           ELSE /\ Len(PostElements) = Len(PreElements) + 1
                /\ SubSeq(PostElements, 1, Len(PreElements)) = PreElements
                /\ PostElements[Len(PostElements)].type = ev.pre.draftState.type
                /\ PostElements[Len(PostElements)].id \in generateUid

\* a line dragged 7 upwards, from (100,107) to (100,100), was released
C17_Witness ==
    /\ ev.name = "pointerUp"
    /\ ev.pre.draftState # NoDraft
    /\ ev.pre.draftState.type = "line"
    /\ ev.pre.draftState.y1 = 107
    /\ ev.pre.draftState.y2 = 100
    /\ ev.pre.draftState.x1 = ev.pre.draftState.x2
    /\ PostElements = PreElements

\* the y of yard row `row` of a play
RowY(play, row) ==
    FIELD_MARGIN_VERTICAL
        + (row * (computeFieldSize(play.fieldWidthYards, play.fieldLengthYards).h
                    - 2 * FIELD_MARGIN_VERTICAL)) \div play.fieldLengthYards

\* C18: a press on empty canvas with the Player tool appends exactly one
\* Player to the active play, at the pointer's x and on the yard row (of rows
\* 0..divisions) nearest to the pointer's y, and starts no draft and no drag
\* (the draft and the drag are what they were before the press).
C18_PlayerPlacedOnRow ==
    (ev.name = "pointerDownCanvas" /\ ev.pre.tool = "player") =>
        LET play == activePlay(ev.pre)
            rows == 0..play.fieldLengthYards
            created == PostElements[Len(PostElements)]
        IN /\ Len(PostElements) = Len(PreElements) + 1
           /\ SubSeq(PostElements, 1, Len(PreElements)) = PreElements
           /\ created.type = "player"
           /\ created.x = ev.ret[1]
           /\ \E row \in rows :
                 /\ created.y = RowY(play, row)
                 /\ \A other \in rows :
                       Abs(ev.ret[2] - RowY(play, row)) <= Abs(ev.ret[2] - RowY(play, other))
           /\ draftState = ev.pre.draftState
           /\ dragState = ev.pre.dragState

\* a press above the field, at (100,10), put a player on row 0
C18_Witness ==
    /\ ev.name = "pointerDownCanvas"
    /\ ev.pre.tool = "player"
    /\ ev.ret = <<100, 10>>
    /\ PostElements[Len(PostElements)].y = 40
    /\ Len(PostElements) = Len(PreElements) + 1
    /\ draftState = NoDraft
    /\ dragState = NoDrag

\* C19: while players are locked no press, move or release of the pointer
\* changes the x or y of a Player, also when the drag of that Player began
\* before the lock was switched on.
C19_LockedPlayersStay ==
    (ev.name \in {"pointerDownCanvas", "pointerDownElement", "pointerMove", "pointerUp"}
        /\ ev.pre.playersLocked) =>
        /\ Len(PostElements) >= Len(PreElements)
        /\ \A i \in 1..Len(PreElements) :
              PreElements[i].type = "player" => PostElements[i] = PreElements[i]

\* the player at (100,112) was being dragged when the lock was switched on,
\* and the pointer then moved to (105,120)
C19_Witness ==
    /\ ev.name = "pointerMove"
    /\ ev.prior.name = "toggleLock"
    /\ ev.pre.playersLocked
    /\ ev.pre.dragState.id = "e1"
    /\ ev.ret = <<105, 120>>
    /\ PreElements[1].type = "player"
    /\ PreElements[1].x = 100
    /\ ev.ret[1] - ev.pre.dragState.offsetX # PreElements[1].x

\* C20: Delete or Backspace with a selection removes exactly the selected
\* element from the active play, leaves every other element and the order as
\* they were and clears the selection; without a selection nothing changes.
C20_DeleteRemovesOneElement ==
    ev.name = "deleteKey" =>
        IF ev.pre.selectionId = Null THEN W = ev.pre
        ELSE /\ selectionId = Null
             /\ PostElements = SelectSeq(PreElements,
                                         LAMBDA element : element.id # ev.pre.selectionId)
             /\ Len(PostElements) >= Len(PreElements) - 1

-----------------------------------------------------------------------------
(* SpecSnap: findSnapPoint as a function of the canvas it is called on *)

MaxSnapElements == 2

\* elements around the point (100,100): line endpoints 17 away on either
\* side, arrow endpoints 18 and 19 away, and one element of every other type
SnapElements ==
    {[id |-> "e1", type |-> "player", x |-> 100, y |-> 100, r |-> playerRadius],
     [id |-> "e2", type |-> "line", x1 |-> 100, y1 |-> 117, x2 |-> 100, y2 |-> 83,
      thickness |-> thickness],
     [id |-> "e1", type |-> "arrow", x1 |-> 100, y1 |-> 118, x2 |-> 100, y2 |-> 119,
      thickness |-> thickness],
     [id |-> "e2", type |-> "perp_line", x1 |-> 100, y1 |-> 120, x2 |-> 100, y2 |-> 100,
      thickness |-> thickness, tick |-> 12],
     [id |-> "e1", type |-> "ball", x |-> 100, y |-> 101],
     [id |-> "e2", type |-> "rect", x |-> 100, y |-> 100, w |-> 10, h |-> 10],
     [id |-> "e1", type |-> "zone", x |-> 100, y |-> 101, w |-> 10, h |-> 10]}

SnapElementLists ==
    UNION {[1..n -> SnapElements] : n \in 0..MaxSnapElements}

SnapPointers == {[x |-> 100, y |-> 100], [x |-> 100, y |-> 101], [x |-> 100, y |-> 137]}

SnapExcludes == {<<>>, <<[x |-> 100, y |-> 117]>>, <<[x |-> 100, y |-> 100]>>}

InitSnap ==
    /\ probe \in [elements : SnapElementLists, playersLocked : BOOLEAN,
                  at : SnapPointers, exclude : SnapExcludes,
                  called : {FALSE}, result : {<<>>}]
    /\ plays = 0
    /\ activeId = Null
    /\ selectionId = Null
    /\ tool = "select"
    /\ wristConfig = [playCount |-> 0, selectedIds |-> <<>>]
    /\ dragState = NoDrag
    /\ draftState = NoDraft
    /\ snapCandidate = <<>>
    /\ playersLocked = FALSE
    /\ heap = <<>>
    /\ mounted = FALSE
    /\ nEvents = 0
    /\ ev = <<>>
    /\ HIs(useHistory([plays |-> 0, activeId |-> Null]))
    /\ call = [op |-> "create", arg |-> <<>>, ret |-> <<>>,
               pre |-> H, prior |-> [op |-> "none", null |-> TRUE]]
    /\ script = ScriptOff

\* one call findSnapPoint(x, y, exclude) on a canvas whose play has
\* probe.elements and whose playersLocked prop is probe.playersLocked
CallFindSnapPoint ==
    /\ ~probe.called
    /\ probe' = [probe EXCEPT
                   !.called = TRUE,
                   !.result = findSnapPoint(probe.elements, probe.playersLocked,
                                            probe.at.x, probe.at.y, probe.exclude)]
    /\ UNCHANGED <<undoStackRef, redoStackRef, previousRef, skipNextRef, call, script,
                   plays, activeId, selectionId, tool, wristConfig, dragState, heap,
                   mounted, nEvents, ev, draftState, snapCandidate, playersLocked>>

NextSnap == CallFindSnapPoint

SpecSnap == InitSnap /\ [][NextSnap]_vars

\* the positions of the search: element i's player centre (k = 0), first
\* endpoint (k = 1) and second endpoint (k = 2)
SnapSlots == {<<i, k>> : i \in 1..Len(probe.elements), k \in 0..2}

SlotPoint(s) ==
    LET element == probe.elements[s[1]]
    IN IF s[2] = 0 THEN [x |-> element.x, y |-> element.y]
       ELSE IF s[2] = 1 THEN [x |-> element.x1, y |-> element.y1]
       ELSE [x |-> element.x2, y |-> element.y2]

\* the slots the reference search considers
SlotOffered(s) ==
    LET element == probe.elements[s[1]]
    IN /\ IF s[2] = 0 THEN element.type = "player" /\ probe.playersLocked
          ELSE element.type \in {"arrow", "line", "perp_line"}
       /\ ~(probe.exclude # <<>> /\ SlotPoint(s) = probe.exclude[1])

SlotDistance2(s) == Sq(SlotPoint(s).x - probe.at.x) + Sq(SlotPoint(s).y - probe.at.y)

SlotBefore(s, t) == s[1] < t[1] \/ (s[1] = t[1] /\ s[2] < t[2])

\* C16: findSnapPoint returns what the reference search returns: of the
\* candidates taken in element order (a Player's centre only while players
\* are locked, both endpoints of an arrow, line or perpendicular line, the
\* first before the second, nothing of a ball, rect or zone), leaving out
\* those within 0.5 of the excluded point, the first one of least distance
\* if that distance is strictly below 18, and null otherwise.
C16_FindSnapPointIsReference ==
    (probe # <<>> /\ probe.called) =>
        LET near == {s \in SnapSlots : SlotOffered(s) /\ SlotDistance2(s) < Sq(18)}
        IN IF near = {} THEN probe.result = <<>>
           ELSE \E s \in near :
                   /\ probe.result = <<SlotPoint(s)>>
                   /\ \A t \in near \ {s} :
                         \/ SlotDistance2(s) < SlotDistance2(t)
                         \/ SlotDistance2(s) = SlotDistance2(t) /\ SlotBefore(s, t)

\* the line's two endpoints are both 17 from the pointer and after an
\* unlocked player at the pointer itself: the first endpoint is returned
C16_Witness ==
    /\ probe # <<>>
    /\ probe.called
    /\ ~probe.playersLocked
    /\ probe.at = [x |-> 100, y |-> 100]
    /\ probe.exclude = <<>>
    /\ Len(probe.elements) = 2
    /\ probe.elements[1].type = "player"
    /\ probe.elements[2].type = "line"
    /\ probe.result = <<[x |-> 100, y |-> 117]>>

-----------------------------------------------------------------------------
(* SpecGesture: pointer and key events on a canvas that shows three stored  *)
(* lines, with the screen-to-field transform present or missing at each     *)
(* event.  ev.pressed tells whether a press has had no release yet and      *)
(* ev.inOrder whether every press so far was released before the next.      *)

MaxGestureEvents == 4

\* clientToSvg: null (<<>>) without the svg or its screen matrix; the
\* pointer is given in field coordinates
clientToSvg(ctm, x, y) == IF ctm THEN <<[x |-> x, y |-> y]>> ELSE <<>>

\* onMouseDown of the svg: handleSvgPointerDown from its first line
svgOnMouseDown(w, point, id) ==
    IF point = <<>> THEN w
    ELSE handleSvgPointerDown(w, point[1].x, point[1].y, id)

\* onMouseMove of the svg: handleSvgPointerMove from its first line
svgOnMouseMove(w, point) ==
    IF point = <<>> THEN w
    ELSE handleSvgPointerMove(w, point[1].x, point[1].y)

\* onMouseDown of an element's node: handleElementPointerDown from its first
\* line; onSelectionChange runs before clientToSvg is asked for the point
elementOnMouseDown(w, element, point, id) ==
    IF Bubbles(w, element) THEN svgOnMouseDown(w, point, id)
    ELSE IF point = <<>> THEN handleSelectionChange(w, element.id)
    ELSE handleElementPointerDown(w, element, point[1].x, point[1].y)

\* a stored play of three lines: s1 ends at (100,109), s2 at (100,100) and
\* s3 at (100,105)
GesturePlays ==
    <<[createEmptyPlay("p1", "Play 1") EXCEPT
         !.elements =
             <<[id |-> "s1", type |-> "line", x1 |-> 100, y1 |-> 109,
                x2 |-> 40, y2 |-> 109, thickness |-> thickness],
               [id |-> "s2", type |-> "line", x1 |-> 100, y1 |-> 100,
                x2 |-> 40, y2 |-> 100, thickness |-> thickness],
               [id |-> "s3", type |-> "line", x1 |-> 100, y1 |-> 105,
                x2 |-> 40, y2 |-> 105, thickness |-> thickness]>>]>>

GestureTools == {"arrow", "line", "perp_line"}

\* a point 10 above s2's end, s1's end, and a point far from every line
GesturePoints == {<<100, 90>>, <<100, 109>>, <<300, 300>>}

\* the App after loading the stored play, with nothing or line s1 selected
InitGesture ==
    /\ plays = InitialW.plays
    /\ activeId = InitialW.activeId
    /\ selectionId \in {Null, "s1"}
    /\ tool \in GestureTools
    /\ wristConfig = InitialW.wristConfig
    /\ dragState = InitialW.dragState
    /\ draftState = InitialW.draftState
    /\ snapCandidate = InitialW.snapCandidate
    /\ playersLocked = InitialW.playersLocked
    /\ probe = <<>>
    /\ heap = (1 :> [list |-> GesturePlays, stale |-> FALSE])
    /\ HIs(InitialW.h)
    /\ mounted = FALSE
    /\ nEvents = 0
    /\ ev = [name |-> "none", ret |-> <<>>, pre |-> InitialW,
             pressed |-> FALSE, inOrder |-> TRUE]
    /\ call = [op |-> "create", arg |-> <<>>, ret |-> <<>>,
               pre |-> InitialW.h, prior |-> [op |-> "none", null |-> TRUE]]
    /\ script = ScriptOff

MountGesture ==
    /\ ~mounted
    /\ mounted' = TRUE
    /\ SetW(Collect(Commit(W, W, TRUE)))
    /\ ev' = [ev EXCEPT !.pre = W]
    /\ UNCHANGED <<nEvents, call, script, probe>>

GestureEvent(name, ret, w1, pressed, inOrder) ==
    /\ mounted
    /\ nEvents < MaxGestureEvents
    /\ nEvents' = nEvents + 1
    /\ SetW(Collect(Render(W, w1)))
    /\ ev' = [name |-> name, ret |-> ret, pre |-> W,
              pressed |-> pressed, inOrder |-> inOrder]
    /\ UNCHANGED <<mounted, call, script, probe>>

\* a press: with the transform the target is the topmost node under the
\* pointer, without it any node or the canvas
GesturePointerDown ==
    \E p \in GesturePoints, id \in generateUid, ctm \in BOOLEAN,
       target \in 0..Len(Drawn(W)) :
        /\ ctm => target = TopElement(W, p[1], p[2])
        /\ LET point == clientToSvg(ctm, p[1], p[2])
               onElement == target # 0 /\ ~Bubbles(W, Drawn(W)[target])
           IN GestureEvent(IF onElement THEN "pointerDownElement" ELSE "pointerDownCanvas",
                           point,
                           IF target = 0 THEN svgOnMouseDown(W, point, id)
                           ELSE elementOnMouseDown(W, Drawn(W)[target], point, id),
                           TRUE, ev.inOrder /\ ~ev.pressed)

GesturePointerMove ==
    \E p \in GesturePoints, ctm \in BOOLEAN :
        LET point == clientToSvg(ctm, p[1], p[2])
        IN GestureEvent("pointerMove", point, svgOnMouseMove(W, point),
                        ev.pressed, ev.inOrder)

GesturePointerUp ==
    \E id \in generateUid :
        GestureEvent("pointerUp", <<>>, handleSvgPointerUp(W, id),
                     FALSE, ev.inOrder /\ ev.pressed)

GestureDeleteKey ==
    GestureEvent("deleteKey", <<>>, onKeyDown(W), ev.pressed, ev.inOrder)

NextGesture ==
    \/ MountGesture
    \/ GesturePointerDown
    \/ GesturePointerMove
    \/ GesturePointerUp
    \/ GestureDeleteKey

SpecGesture == InitGesture /\ [][NextGesture]_vars

\* C21: a press on the canvas, a press on an element and a pointer move for
\* which clientToSvg returns null leave the document, the selection, the
\* draft state and the drag state as they were.
C21_NoTransformNoOp ==
    (ev.name \in {"pointerDownCanvas", "pointerDownElement", "pointerMove"}
        /\ ev.ret = <<>>) =>
        /\ plays = ev.pre.plays
        /\ Doc(W) = Doc(ev.pre)
        /\ selectionId = ev.pre.selectionId
        /\ draftState = ev.pre.draftState
        /\ dragState = ev.pre.dragState

\* C23: a press on empty canvas with the Arrow, Line or Perpendicular-line
\* tool starts a draft of that type whose start point is what findSnapPoint
\* returns for the pointer, or the pointer itself when it returns null, and
\* whose end point equals the start point; the document is unchanged.
C23_DraftStartsAtSnap ==
    (ev.name = "pointerDownCanvas" /\ ev.ret # <<>> /\ IsLineType(ev.pre.tool)) =>
        LET pointer == ev.ret[1]
            snapPoint == findSnapPoint(activePlay(ev.pre).elements, ev.pre.playersLocked,
                                       pointer.x, pointer.y, <<>>)
            start == IF snapPoint # <<>> THEN snapPoint[1] ELSE pointer
        IN /\ draftState # NoDraft
           /\ draftState.type = ev.pre.tool
           /\ draftState.x1 = start.x /\ draftState.y1 = start.y
           /\ draftState.x2 = start.x /\ draftState.y2 = start.y
           /\ plays = ev.pre.plays
           /\ Doc(W) = Doc(ev.pre)

\* a press at (100,90), 10 from the end of line s2 at (100,100), started a
\* draft at that end
C23_Witness ==
    /\ ev.name = "pointerDownCanvas"
    /\ ev.ret = <<[x |-> 100, y |-> 90]>>
    /\ IsLineType(ev.pre.tool)
    /\ draftState # NoDraft
    /\ draftState.x1 = 100 /\ draftState.y1 = 100
    /\ draftState.x2 = 100 /\ draftState.y2 = 100

\* C24: as long as every press is released before the next press (any
\* number of moves and key presses in between), the draft state and the drag
\* state are never both set, and after every release both are null.
C24_OneModeAtATime ==
    ev.inOrder =>
        /\ ~(draftState # NoDraft /\ dragState # NoDrag)
        /\ ev.name = "pointerUp" => (draftState = NoDraft /\ dragState = NoDrag)

\* a release, in order, that ended a drag
C24_Witness ==
    /\ ev.inOrder
    /\ ev.name = "pointerUp"
    /\ ev.pre.dragState # NoDrag
    /\ ev.pre.draftState = NoDraft
    /\ dragState = NoDrag

\* C30: every arrow, line or perpendicular line that a release commits from
\* a draft has stored endpoints at least 8 apart, whatever pointer and key
\* events came before, a Delete between the last move and the release
\* included.
C30_CommittedLinesAreLong ==
    (ev.name = "pointerUp" /\ ev.pre.draftState # NoDraft
        /\ IsLineType(ev.pre.draftState.type)
        /\ Len(PostElements) = Len(PreElements) + 1) =>
        LET created == PostElements[Len(PostElements)]
        IN Sq(created.x2 - created.x1) + Sq(created.y2 - created.y1) >= Sq(8)

-----------------------------------------------------------------------------
(* SpecNormalise: normaliseElement and normalisePlay applied once and twice *)
(* to entries of a stored or imported file.                                 *)

\* a string field that is absent, null or given
OptStr(field, given) == {<<>>, field :> Null, field :> given}

\* a number field that is absent, not a finite number, or given
OptNum(field, given) == {<<>>, field :> Missing, field :> given}

\* entries of an elements array: every element type with each defaulted
\* field absent, null or given; an unknown type tag; no type tag; null
RawElements ==
    {l @@ c @@ r @@ [id |-> "e1", type |-> "player", x |-> 150, y |-> 76] :
        l \in OptStr("label", "QB"), c \in OptStr("color", "#ef4444"),
        r \in OptNum("r", 30)}
    \cup {c @@ [id |-> "e1", type |-> "ball", x |-> 150, y |-> 76] :
            c \in OptStr("color", "#ef4444")}
    \cup {s @@ k @@ c @@ [id |-> "e1", type |-> type, x1 |-> 100, y1 |-> 100,
                          x2 |-> 100, y2 |-> 140] :
            s \in OptStr("style", "dashed"), k \in OptNum("thickness", 5),
            c \in OptStr("color", "#ef4444"), type \in {"arrow", "line"}}
    \cup {s @@ k @@ c @@ tk @@ [id |-> "e1", type |-> "perp_line", x1 |-> 100, y1 |-> 100,
                                x2 |-> 100, y2 |-> 140] :
            s \in OptStr("style", "dashed"), k \in OptNum("thickness", 5),
            c \in OptStr("color", "#ef4444"), tk \in OptNum("tick", 8)}
    \cup {c @@ w @@ h @@ [id |-> "e1", type |-> type, x |-> 100, y |-> 100] :
            c \in OptStr("color", "#ef4444"), w \in OptNum("w", 40),
            h \in OptNum("h", 30), type \in {"rect", "zone"}}
    \cup {[id |-> "e1", type |-> "circle", x |-> 150, y |-> 76],
          [id |-> "e1", type |-> Null, x |-> 150, y |-> 76],
          [id |-> "e1", x |-> 150, y |-> 76],
          JsonNull}

\* plays of a file: the old, short and twin plays, a play whose elements
\* array holds null, and plays with each line of scrimmage on each length
RawPlays ==
    {OldPlay, ShortPlay, TwinPlay, [OldPlay EXCEPT !.elements = <<JsonNull>>]}
    \cup {[ShortPlay EXCEPT !.lineOfScrimmage = los, !.fieldLengthYards = length] :
            los \in LosValues \cup {2}, length \in {Missing, 0, 3, 20}}

InitNormalise ==
    /\ probe \in [kind : {"element"}, raw : RawElements, called : {FALSE},
                  once : {<<>>}, twice : {<<>>}]
               \cup [kind : {"play"}, raw : RawPlays, called : {FALSE},
                     once : {<<>>}, twice : {<<>>}]
    /\ plays = 0
    /\ activeId = Null
    /\ selectionId = Null
    /\ tool = "select"
    /\ wristConfig = [playCount |-> 0, selectedIds |-> <<>>]
    /\ dragState = NoDrag
    /\ draftState = NoDraft
    /\ snapCandidate = <<>>
    /\ playersLocked = FALSE
    /\ heap = <<>>
    /\ mounted = FALSE
    /\ nEvents = 0
    /\ ev = <<>>
    /\ HIs(useHistory([plays |-> 0, activeId |-> Null]))
    /\ call = [op |-> "create", arg |-> <<>>, ret |-> <<>>,
               pre |-> H, prior |-> [op |-> "none", null |-> TRUE]]
    /\ script = ScriptOff

\* normaliseElement(raw), and normaliseElement of what it returned
NormaliseElementTwice ==
    /\ probe.kind = "element"
    /\ ~probe.called
    /\ LET once == normaliseElement(probe.raw)
       IN probe' = [probe EXCEPT
                      !.called = TRUE,
                      !.once = once,
                      !.twice = IF Threw(once) THEN once ELSE normaliseElement(once)]
    /\ UNCHANGED <<undoStackRef, redoStackRef, previousRef, skipNextRef, call, script,
                   plays, activeId, selectionId, tool, wristConfig, dragState, heap,
                   mounted, nEvents, ev, draftState, snapCandidate, playersLocked>>

\* normalisePlay(raw), and normalisePlay of what it returned
NormalisePlayTwice ==
    /\ probe.kind = "play"
    /\ ~probe.called
    /\ LET once == normalisePlay(probe.raw)
       IN probe' = [probe EXCEPT
                      !.called = TRUE,
                      !.once = once,
                      !.twice = IF Threw(once) THEN once ELSE normalisePlay(once)]
    /\ UNCHANGED <<undoStackRef, redoStackRef, previousRef, skipNextRef, call, script,
                   plays, activeId, selectionId, tool, wristConfig, dragState, heap,
                   mounted, nEvents, ev, draftState, snapCandidate, playersLocked>>

NextNormalise == NormaliseElementTwice \/ NormalisePlayTwice

SpecNormalise == InitNormalise /\ [][NextNormalise]_vars

\* C25: normaliseElement applied to its own result returns that result, and
\* so does normalisePlay.
C25_NormaliseIdempotent ==
    (probe.called /\ ~Threw(probe.once)) => probe.twice = probe.once

\* C26: normaliseElement throws for no entry of an elements array, null
\* entries and entries with missing fields included, and returns an entry
\* whose type is not one of the seven element types as it is.
C26_NormaliseElementTotal ==
    (probe.called /\ probe.kind = "element") =>
        /\ ~Threw(probe.once)
        /\ (probe.raw # JsonNull
              /\ StrOr(probe.raw, "type", Null) \notin
                    {"player", "ball", "arrow", "line", "perp_line", "rect", "zone"})
             => probe.once = probe.raw

-----------------------------------------------------------------------------
(* A further claim about the history manager, checked under SpecHistory *)

\* C29: the undo stack and the redo stack together never hold more than
\* `capacity` entries, so a redo, which pushes onto the undo stack without
\* trimming it, never takes the undo stack beyond capacity.
C29_StacksWithinCapacity ==
    /\ Len(undoStackRef) + Len(redoStackRef) <= capacity
    /\ (call.op = "redo" /\ call.ret # <<>>) =>
         /\ Len(undoStackRef) = Len(call.pre.undoStack) + 1
         /\ Len(undoStackRef) <= capacity

\* a redo filled the undo stack to capacity
C29_Witness ==
    /\ call.op = "redo"
    /\ call.ret # <<>>
    /\ Len(call.pre.undoStack) = capacity - 1
    /\ Len(undoStackRef) = capacity

-----------------------------------------------------------------------------
(* SpecDrag: drags and drafts on a canvas that shows a stored player, an   *)
(* arrow and a rect, with the Line or the Rect tool chosen and changed     *)
(* between events.  ev.gesture follows a drag gesture: the document and    *)
(* the history as they were before the press on the element, and how many  *)
(* pointer-moves followed the press with no other event in between.        *)

MaxDragEvents == 4

\* a stored play: player e1 at (100,112), arrow e2 from (200,100) to
\* (260,100) and rect e3 at (300,300), 40 wide and 30 high
DragPlays ==
    <<[createEmptyPlay("p1", "Play 1") EXCEPT
         !.elements =
             <<[id |-> "e1", type |-> "player", x |-> 100, y |-> 112, r |-> 25],
               [id |-> "e2", type |-> "arrow", x1 |-> 200, y1 |-> 100,
                x2 |-> 260, y2 |-> 100, thickness |-> thickness],
               [id |-> "e3", type |-> "rect", x |-> 300, y |-> 300,
                w |-> 40, h |-> 30]>>]>>

DragTools == {"line", "rect"}

\* two points on the player, 12 and 22 above its centre, one on the arrow
\* 10 from its start, one on the rect's left edge and one on the bare field
DragPoints == {<<100, 100>>, <<100, 90>>, <<210, 100>>, <<300, 310>>, <<150, 250>>}

NoGesture == [on |-> FALSE, moves |-> 0, pre |-> <<>>]

InitDrag ==
    /\ plays = InitialW.plays
    /\ activeId = InitialW.activeId
    /\ selectionId = InitialW.selectionId
    /\ tool \in DragTools
    /\ wristConfig = InitialW.wristConfig
    /\ dragState = InitialW.dragState
    /\ draftState = InitialW.draftState
    /\ snapCandidate = InitialW.snapCandidate
    /\ playersLocked = InitialW.playersLocked
    /\ probe = <<>>
    /\ heap = (1 :> [list |-> DragPlays, stale |-> FALSE])
    /\ HIs(InitialW.h)
    /\ mounted = FALSE
    /\ nEvents = 0
    /\ ev = [name |-> "none", ret |-> <<>>, pre |-> InitialW, gesture |-> NoGesture]
    /\ call = [op |-> "create", arg |-> <<>>, ret |-> <<>>,
               pre |-> InitialW.h, prior |-> [op |-> "none", null |-> TRUE]]
    /\ script = ScriptOff

MountDrag ==
    /\ ~mounted
    /\ mounted' = TRUE
    /\ SetW(Collect(Commit(W, W, TRUE)))
    /\ ev' = [ev EXCEPT !.pre = W]
    /\ UNCHANGED <<nEvents, call, script, probe>>

DragEvent(name, ret, w1, gesture) ==
    /\ mounted
    /\ nEvents < MaxDragEvents
    /\ nEvents' = nEvents + 1
    /\ SetW(Collect(Render(W, w1)))
    /\ ev' = [name |-> name, ret |-> ret, pre |-> W, gesture |-> gesture]
    /\ UNCHANGED <<mounted, call, script, probe>>

\* a press; a drag gesture begins when it is on an element, with neither a
\* drag nor a draft left over, and enters Dragging
DragPointerDown ==
    \E p \in DragPoints, id \in generateUid :
        LET top == TopElement(W, p[1], p[2])
            onElement == top # 0 /\ ~Bubbles(W, Drawn(W)[top])
            w1 == onMouseDown(W, p[1], p[2], id)
        IN DragEvent(IF onElement THEN "pointerDownElement" ELSE "pointerDownCanvas",
                     <<p[1], p[2]>>, w1,
                     IF onElement /\ dragState = NoDrag /\ draftState = NoDraft
                           /\ w1.dragState # NoDrag
                     THEN [on |-> TRUE, moves |-> 0, pre |-> <<W>>]
                     ELSE NoGesture)

DragPointerMove ==
    \E p \in DragPoints :
        DragEvent("pointerMove", <<p[1], p[2]>>, handleSvgPointerMove(W, p[1], p[2]),
                  IF ev.gesture.on
                  THEN [ev.gesture EXCEPT !.moves = Min(2, ev.gesture.moves + 1)]
                  ELSE NoGesture)

\* the release keeps what ev.gesture tells of the gesture it ends
DragPointerUp ==
    \E id \in generateUid :
        DragEvent("pointerUp", <<>>, handleSvgPointerUp(W, id), ev.gesture)

DragDeleteKey == DragEvent("deleteKey", <<>>, onKeyDown(W), NoGesture)

DragToolChange ==
    \E next \in DragTools \ {tool} :
        DragEvent("toolChange", <<next>>, handleToolChange(W, next), NoGesture)

DragTogglePlayersLocked ==
    DragEvent("toggleLock", <<>>, handleTogglePlayersLocked(W), NoGesture)

NextDrag ==
    \/ MountDrag
    \/ DragPointerDown
    \/ DragPointerMove
    \/ DragPointerUp
    \/ DragDeleteKey
    \/ DragToolChange
    \/ DragTogglePlayersLocked

SpecDrag == InitDrag /\ [][NextDrag]_vars

-----------------------------------------------------------------------------
(* Claims about dragging *)

\* the anchor of an element: (x1, y1) of a line, arrow or perpendicular
\* line, (x, y) of anything else
Anchor(element) ==
    IF IsLineType(element.type) THEN [x |-> element.x1, y |-> element.y1]
    ELSE [x |-> element.x, y |-> element.y]

\* y is the y of the yard row (of rows 0..fieldLengthYards) nearest to target
OnNearestRow(play, y, target) ==
    \E row \in 0..play.fieldLengthYards :
        /\ y = RowY(play, row)
        /\ \A other \in 0..play.fieldLengthYards :
              Abs(target - RowY(play, row)) <= Abs(target - RowY(play, other))

\* the thing a press at ev.ret landed on
Pressed == Drawn(ev.pre)[TopElement(ev.pre, ev.ret[1], ev.ret[2])]

\* a pointer-move found a drag and no draft
MovedWhileDragging ==
    ev.name = "pointerMove" /\ ev.pre.dragState # NoDrag /\ ev.pre.draftState = NoDraft

WithPositionOf(element, from) ==
    IF IsLineType(element.type)
    THEN [element EXCEPT !.x1 = from.x1, !.y1 = from.y1, !.x2 = from.x2, !.y2 = from.y2]
    ELSE [element EXCEPT !.x = from.x, !.y = from.y]

\* C32: a pointer-move while Dragging changes only position fields of the
\* one dragged element: the number, order and ids of the elements stay, no
\* element but the dragged one changes, a line-like element keeps its
\* endpoint difference and every field that is not a position (w and h of a
\* rect or zone among them) stays.
C32_MoveChangesOnlyPositions ==
    MovedWhileDragging =>
        /\ Len(PostElements) = Len(PreElements)
        /\ \A i \in 1..Len(PreElements) :
              LET before == PreElements[i]
                  after == PostElements[i]
              IN /\ after.id = before.id
                 /\ after.type = before.type
                 /\ before.id # ev.pre.dragState.id => after = before
                 /\ WithPositionOf(after, before) = before
                 /\ IsLineType(before.type) =>
                       /\ after.x2 - after.x1 = before.x2 - before.x1
                       /\ after.y2 - after.y1 = before.y2 - before.y1
        /\ \A i, j \in 1..Len(PreElements) :
              (PostElements[i] # PreElements[i] /\ PostElements[j] # PreElements[j]) => i = j

-----------------------------------------------------------------------------
(* Further claims about the canvas, checked under SpecCanvas *)

\* a press landed on a Player while players were locked and a drawing tool
\* was chosen
PressedLockedPlayer ==
    /\ ev.name \in {"pointerDownCanvas", "pointerDownElement"}
    /\ TopElement(ev.pre, ev.ret[1], ev.ret[2]) # 0
    /\ Pressed.type = "player"
    /\ ev.pre.playersLocked
    /\ ev.pre.tool \in {"arrow", "line", "perp_line", "rect", "zone"}

\* C33: a press on a Player while players are locked and the tool is Arrow,
\* Line, PerpendicularLine, Rect or Zone is not taken by the element: the
\* selection and the drag state are what they were, and the canvas handler
\* runs and starts a draft of the tool's type.
C33_LockedPlayerPressBubbles ==
    PressedLockedPlayer =>
        /\ ev.name = "pointerDownCanvas"
        /\ selectionId = ev.pre.selectionId
        /\ dragState = ev.pre.dragState
        /\ draftState.id = "draft"
        /\ draftState.type = ev.pre.tool
        /\ PostElements = PreElements
        /\ IF IsLineType(ev.pre.tool)
           THEN draftState.x2 = draftState.x1 /\ draftState.y2 = draftState.y1
           ELSE /\ draftState.x = ev.ret[1] /\ draftState.y = ev.ret[2]
                /\ draftState.w = 0 /\ draftState.h = 0

\* with the Zone tool the locked player was pressed at (100,100): a zone
\* draft starts there, nothing is selected and nothing is dragged
C33_Witness ==
    /\ PressedLockedPlayer
    /\ ev.pre.tool = "zone"
    /\ ev.ret = <<100, 100>>
    /\ ev.pre.draftState = NoDraft
    /\ draftState = [id |-> "draft", type |-> "zone", x |-> 100, y |-> 100, w |-> 0, h |-> 0]
    /\ selectionId = Null
    /\ dragState = NoDrag

\* C34: with players locked and the Arrow, Line or PerpendicularLine tool
\* chosen, a press anywhere on a Player's circle starts a draft whose start
\* point is exactly that Player's centre.
C34_DraftStartsAtPlayerCentre ==
    (PressedLockedPlayer /\ IsLineType(ev.pre.tool)) =>
        /\ draftState.id = "draft"
        /\ draftState.x1 = Pressed.x
        /\ draftState.y1 = Pressed.y

-----------------------------------------------------------------------------
(* A further claim about the plays, checked under SpecPlays *)

\* C35: every Player of every play is on a yard row of the play's current
\* field: y = 40 + k * lineSpacing for an integer k with
\* 0 <= k <= fieldLengthYards, after Player placements and field-length
\* changes.
C35_PlayersOnYardRows ==
    \A play \in CurrentPlays(W) :
        \A i \in 1..Len(play.elements) :
            play.elements[i].type = "player" =>
                \E k \in 0..play.fieldLengthYards :
                    play.elements[i].y = FIELD_MARGIN_VERTICAL + k * lineSpacing(play)

-----------------------------------------------------------------------------
(* A further claim about the selection, checked under SpecCanvas *)

\* C36: a selection that is not null is the id of an element of the active
\* play.
C36_SelectionNamesAnElement ==
    selectionId # Null => selectionId \in ElementIdsOf(activePlay(W))

-----------------------------------------------------------------------------
(* Claims about drafts, checked under SpecDrag *)

\* a pointer-up found a draft that is not too small
ReleasedDraft ==
    /\ ev.name = "pointerUp"
    /\ ev.pre.draftState # NoDraft
    /\ ~DraftTooSmall(ev.pre.draftState)

\* C37: a pointer-up on a draft at or above the size threshold appends
\* exactly one element at the end of the active play's elements, with the
\* draft's type and geometry (the end of a line-like draft as the release
\* snaps it once more) and a generated id, never the placeholder "draft";
\* the elements that were there are unchanged and the draft is cleared.
C37_DraftCommitted ==
    ReleasedDraft =>
        LET draft == ev.pre.draftState
            created == PostElements[Len(PostElements)]
        IN /\ Len(PostElements) = Len(PreElements) + 1
           /\ SubSeq(PostElements, 1, Len(PreElements)) = PreElements
           /\ created.id \in generateUid
           /\ created.id # "draft"
           /\ created.type = draft.type
           /\ IF IsLineType(draft.type)
              THEN LET end == PointOr(findSnapPoint(PreElements, ev.pre.playersLocked,
                                                    draft.x2, draft.y2,
                                                    <<[x |-> draft.x1, y |-> draft.y1]>>),
                                      draft.x2, draft.y2)
                   IN [created EXCEPT !.id = "draft"] =
                          [draft EXCEPT !.x2 = end.x, !.y2 = end.y]
              ELSE [created EXCEPT !.id = "draft"] = draft
           /\ draftState = NoDraft

\* a rect draft from (150,250) to the corner (300,310) was released
C37_Witness ==
    /\ ReleasedDraft
    /\ ev.pre.draftState = [id |-> "draft", type |-> "rect", x |-> 150, y |-> 250,
                            w |-> 150, h |-> 60]
    /\ Len(PostElements) = 4
    /\ PostElements[4] = [id |-> "e2", type |-> "rect", x |-> 150, y |-> 250,
                          w |-> 150, h |-> 60]
    /\ draftState = NoDraft

\* a pointer-move found a draft
MovedWhileDrafting == ev.name = "pointerMove" /\ ev.pre.draftState # NoDraft

\* the points a draft's end can snap to: the centres of the Players while
\* players are locked and the endpoints of the lines, arrows and
\* perpendicular lines, the draft's own start point left out
EndCandidates(elements, locked, start) ==
    ({[x |-> elements[i].x, y |-> elements[i].y] :
          i \in {j \in 1..Len(elements) : locked /\ elements[j].type = "player"}}
       \cup {[x |-> elements[i].x1, y |-> elements[i].y1] :
                i \in {j \in 1..Len(elements) : IsLineType(elements[j].type)}}
       \cup {[x |-> elements[i].x2, y |-> elements[i].y2] :
                i \in {j \in 1..Len(elements) : IsLineType(elements[j].type)}})
      \ {start}

\* C38: a pointer-move while Drafting changes neither the document nor the
\* draft's type and start point.  The end of a line-like draft becomes a
\* nearest snap candidate within 18 of the pointer, the start point not
\* being a candidate, or the pointer itself when there is none; w and h of a
\* rect or zone draft become pointer minus origin.
C38_MoveUpdatesDraftEnd ==
    MovedWhileDrafting =>
        LET before == ev.pre.draftState
            px == ev.ret[1]
            py == ev.ret[2]
        IN /\ plays = ev.pre.plays
           /\ Doc(W) = Doc(ev.pre)
           /\ draftState.id = "draft"
           /\ draftState.type = before.type
           /\ IF IsLineType(before.type)
              THEN LET start == [x |-> before.x1, y |-> before.y1]
                       end == [x |-> draftState.x2, y |-> draftState.y2]
                       near == {c \in EndCandidates(PreElements, ev.pre.playersLocked, start) :
                                   Sq(c.x - px) + Sq(c.y - py) < Sq(SNAP_RADIUS)}
                   IN /\ [draftState EXCEPT !.x2 = before.x2, !.y2 = before.y2] = before
                      /\ IF near = {} THEN end = [x |-> px, y |-> py]
                         ELSE /\ end \in near
                              /\ \A c \in near :
                                    Sq(end.x - px) + Sq(end.y - py)
                                        <= Sq(c.x - px) + Sq(c.y - py)
              ELSE draftState = [before EXCEPT !.w = px - before.x, !.h = py - before.y]

\* a line draft that starts at the locked player's centre (100,112) is moved
\* to (100,100), within snapping distance of its own start: the end is the
\* pointer
C38_Witness ==
    /\ MovedWhileDrafting
    /\ ev.pre.playersLocked
    /\ ev.pre.draftState.type = "line"
    /\ ev.pre.draftState.x1 = 100
    /\ ev.pre.draftState.y1 = 112
    /\ ev.ret = <<100, 100>>
    /\ draftState.x1 = 100 /\ draftState.y1 = 112
    /\ draftState.x2 = 100 /\ draftState.y2 = 100

\* C39: a draft is finalised by pointer-up only.  Any other event that
\* finds a draft leaves a draft, and a pointer-move, a key press, a tool
\* change, a lock change or a press on an element (a selection change)
\* leaves it with its type and start point; the pointer-up that finds it
\* clears it, storing one element unless the draft is too small.
C39_DraftEndsAtPointerUp ==
    /\ (ev.name # "pointerUp" /\ ev.pre.draftState # NoDraft) =>
          /\ draftState # NoDraft
          /\ Len(PostElements) <= Len(PreElements)
          /\ ev.name # "pointerDownCanvas" =>
                /\ draftState.id = "draft"
                /\ draftState.type = ev.pre.draftState.type
                /\ Anchor(draftState) = Anchor(ev.pre.draftState)
    /\ (ev.name = "pointerUp" /\ ev.pre.draftState # NoDraft) =>
          /\ draftState = NoDraft
          /\ IF DraftTooSmall(ev.pre.draftState)
             THEN PostElements = PreElements
             ELSE Len(PostElements) = Len(PreElements) + 1

\* the tool was changed from Line to Rect during a line draft from (150,250)
\* to (300,310): the draft is as it was
C39_Witness ==
    /\ ev.name = "toolChange"
    /\ ev.pre.tool = "line"
    /\ tool = "rect"
    /\ ev.pre.draftState.type = "line"
    /\ ev.pre.draftState.x1 = 150 /\ ev.pre.draftState.y1 = 250
    /\ ev.pre.draftState.x2 = 300 /\ ev.pre.draftState.y2 = 310
    /\ draftState = ev.pre.draftState

-----------------------------------------------------------------------------
(* A claim about dragging and the history, checked under SpecDrag *)

\* a pointer-up ended a drag gesture: a press on an element, then one or
\* more pointer-moves and nothing else
DragGestureDone ==
    ev.name = "pointerUp" /\ ev.gesture.on /\ ev.gesture.moves >= 1

\* what a single undo would hand back now
UndoneNow == undo(H).ret

\* a single undo returns the document the gesture started from
UndoReturnsPreDrag ==
    DragGestureDone =>
        /\ UndoneNow # <<>>
        /\ heap[UndoneNow[1].plays].list = PlaysOf(ev.gesture.pre[1])
        /\ UndoneNow[1].activeId = ev.gesture.pre[1].activeId

\* C40: a complete drag gesture (a press on an element, one or more
\* pointer-moves, a pointer-up) adds exactly one entry to the undo stack, so
\* that a single undo returns the dragged element to where it was before
\* the drag.
C40_DragIsOneUndoStep ==
    DragGestureDone =>
        /\ Len(undoStackRef) = Min(capacity, Len(ev.gesture.pre[1].h.undoStack) + 1)
        /\ UndoReturnsPreDrag

=============================================================================
